---- MODULE Spec2Model ----
(***************************************************************************)
(* Model of the WebDAV filesystem adapter WebDAVFS (src/src/webdav-fs.ts)  *)
(* and of the path / multistatus helpers it uses (src/src/utils.ts),       *)
(* running against a WebDAV server that keeps a tree of collections and    *)
(* files.                                                                  *)
(*                                                                         *)
(* Strings are sequences of one-character strings, so every string         *)
(* operation of the source (startsWith, replace, split, slice, ...) is     *)
(* modelled character by character.  Every async function of the adapter   *)
(* is a frame on the call stack; a frame runs from one await to the next   *)
(* in one step.                                                            *)
(***************************************************************************)
EXTENDS Integers, Sequences, FiniteSets, TLC

VARIABLES
    prefix,     \* path component of the configured base URL ("" or "/w")
    trailing,   \* TRUE when the server writes collection hrefs with a final "/"
    listRev,    \* TRUE when the server lists children in descending name order
    tree,       \* server: resource path (sequence of names) -> is a collection
    content,    \* server: resource path of a file -> its bytes
    caching,    \* TRUE when the adapter was constructed with options.cache
    options,    \* the credentials and headers the adapter was constructed with
    cache,      \* the entries of the adapter's cache: key -> value
    stack,      \* call stack of the adapter, innermost frame first
    ret,        \* value handed by a finished callee to its caller
    inflight,   \* the HTTP request fetch has sent and that is not answered yet
    resp,       \* the answer fetch settles with, not yet consumed by request()
    log,        \* history: the requests the current public call handed to fetch
    answers,    \* history: what fetch settled each of these requests with
    trace,      \* history: rm calls, rm outcomes and listings of the current call
    call,       \* history: the current (or last) public call and the tree it found
    result,     \* outcome of the public call once it has finished
    others,     \* history: writes of other clients while the current call ran
    faults      \* number of failures injected so far

vars == <<prefix, trailing, listRev, tree, content, caching, options, cache, stack, ret, inflight,
          resp, log, answers, trace, call, result, others, faults>>

----------------------------------------------------------------------------
(* Bounds *)

MaxFaults == 1

\* writes of other clients during one call of the adapter
MaxWrites == 1

\* appendFile is called on files of at most this many bytes
MaxBytes == 3

\* how many calls the user makes on one adapter with the optional cache
MaxCalls == 3

\* how many requests are followed for their headers
MaxRequests == 1

\* the longest string handed to a path helper, in characters
MaxPathLen == 4

----------------------------------------------------------------------------
(* Strings *)

startsWith(s, c) == Len(s) > 0 /\ s[1] = c
endsWith(s, c) == Len(s) > 0 /\ s[Len(s)] = c

\* path.replace(/\/+/g, '/')
RECURSIVE CollapseSlashes(_)
CollapseSlashes(s) ==
    IF Len(s) < 2 THEN s
    ELSE IF s[1] = "/" /\ s[2] = "/" THEN CollapseSlashes(Tail(s))
    ELSE <<s[1]>> \o CollapseSlashes(Tail(s))

\* s.replace(/\/+$/, '')
RECURSIVE StripTrailingSlashes(_)
StripTrailingSlashes(s) ==
    IF endsWith(s, "/") THEN StripTrailingSlashes(SubSeq(s, 1, Len(s) - 1)) ELSE s

\* s.replace(/^\/+/, '')
RECURSIVE StripLeadingSlashes(_)
StripLeadingSlashes(s) ==
    IF startsWith(s, "/") THEN StripLeadingSlashes(Tail(s)) ELSE s

\* s.replace(/\/$/, '')
StripOneTrailingSlash(s) == IF endsWith(s, "/") THEN SubSeq(s, 1, Len(s) - 1) ELSE s

\* s.replace(/^\//, '')
StripOneLeadingSlash(s) == IF startsWith(s, "/") THEN Tail(s) ELSE s

\* s.lastIndexOf('/'), 0-based, -1 when absent
lastIndexOf(s) ==
    IF \E i \in 1..Len(s) : s[i] = "/"
    THEN (CHOOSE i \in 1..Len(s) : s[i] = "/" /\ \A j \in (i + 1)..Len(s) : s[j] # "/") - 1
    ELSE -1

\* s.split('/'): the pieces between slashes, empty pieces included
RECURSIVE split(_)
split(s) ==
    IF \A i \in 1..Len(s) : s[i] # "/" THEN <<s>>
    ELSE LET k == CHOOSE i \in 1..Len(s) : s[i] = "/" /\ \A j \in 1..(i - 1) : s[j] # "/"
         IN <<SubSeq(s, 1, k - 1)>> \o split(SubSeq(s, k + 1, Len(s)))

\* s.split('/').filter(Boolean)
splitFilter(s) == SelectSeq(split(s), LAMBDA x : x # <<>>)

\* parts.join('/')
RECURSIVE join(_)
join(parts) ==
    IF parts = <<>> THEN <<>>
    ELSE IF Len(parts) = 1 THEN parts[1]
    ELSE parts[1] \o <<"/">> \o join(Tail(parts))

\* s.replace(sub, ''): the first occurrence of the string sub is removed
replaceFirst(s, sub) ==
    LET n == Len(sub)
        At(i) == i + n - 1 <= Len(s) /\ SubSeq(s, i, i + n - 1) = sub
    IN IF \E i \in 1..(Len(s) + 1) : At(i)
       THEN LET k == CHOOSE i \in 1..(Len(s) + 1) : At(i) /\ \A j \in 1..(i - 1) : ~At(j)
            IN SubSeq(s, 1, k - 1) \o SubSeq(s, k + n, Len(s))
       ELSE s

\* normalizePath without its last step: a trailing slash stays
normalizePathKeepingSlash(path) ==
    CollapseSlashes(IF startsWith(path, "/") THEN path ELSE <<"/">> \o path)

normalizePath(path) ==
    LET p1 == IF startsWith(path, "/") THEN path ELSE <<"/">> \o path
        p2 == CollapseSlashes(p1)
    IN IF Len(p2) > 1 /\ endsWith(p2, "/") THEN SubSeq(p2, 1, Len(p2) - 1) ELSE p2

getDirFromPath(path) ==
    IF path = <<>> \/ path = <<"/">> THEN <<"/">>
    ELSE LET normalized == StripTrailingSlashes(path)
             idx == lastIndexOf(normalized)
         IN IF idx <= 0 THEN <<"/">>
            ELSE IF SubSeq(normalized, 1, idx) = <<>> THEN <<"/">>
            ELSE SubSeq(normalized, 1, idx)

----------------------------------------------------------------------------
(* URLs *)

\* scheme and host of the base URL: "h://x"
Origin == <<"h", ":", "/", "/", "x">>

\* new URL(base).pathname
pathname(url) ==
    IF Len(url) > Len(Origin) THEN SubSeq(url, Len(Origin) + 1, Len(url)) ELSE <<"/">>

\* url.replace(/([^:]\/)\/+/g, '$1')
RECURSIVE UrlCollapse(_)
UrlCollapse(s) ==
    IF Len(s) < 3 THEN s
    ELSE IF s[1] # ":" /\ s[2] = "/" /\ s[3] = "/"
         THEN <<s[1], s[2]>> \o UrlCollapse(StripLeadingSlashes(SubSeq(s, 3, Len(s))))
         ELSE <<s[1]>> \o UrlCollapse(Tail(s))

\* joinUrl without the comparison of first segments: nothing is stripped
joinUrlKeepingPrefix(base, path) ==
    LET url == IF path = <<>> THEN base
               ELSE (IF endsWith(base, "/") THEN base ELSE base \o <<"/">>)
                    \o (IF startsWith(path, "/") THEN Tail(path) ELSE path)
    IN UrlCollapse(url)

joinUrl(base, path) ==
    LET basePath == StripTrailingSlashes(pathname(base))
        baseParts == splitFilter(basePath)
        pParts == splitFilter(path)
        dup == basePath # <<>> /\ path # <<>> /\ baseParts # <<>>
                 /\ pParts # <<>> /\ pParts[1] = baseParts[1]
        shifted == join(Tail(pParts))
        p == IF dup
             THEN (IF shifted # <<>> /\ ~startsWith(shifted, "/")
                   THEN <<"/">> \o shifted ELSE shifted)
             ELSE path
        url == IF p = <<>> THEN base
               ELSE (IF endsWith(base, "/") THEN base ELSE base \o <<"/">>)
                    \o (IF startsWith(p, "/") THEN Tail(p) ELSE p)
    IN UrlCollapse(url)

\* the constructor's baseUrl: options.baseUrl without one trailing slash
baseUrl == Origin \o prefix

----------------------------------------------------------------------------
(* The WebDAV server *)

\* the names the server orders its listings by
NameOrder == << <<"a">>, <<"b">>, <<"c">>, <<"d">>, <<".", "h">> >>

Rank(n) ==
    IF \E i \in 1..Len(NameOrder) : NameOrder[i] = n
    THEN CHOOSE i \in 1..Len(NameOrder) : NameOrder[i] = n
    ELSE 0

Exists(t, r) == r = <<>> \/ r \in DOMAIN t
IsDir(t, r) == r = <<>> \/ (r \in DOMAIN t /\ t[r])
IsPrefixOf(r, q) == Len(r) <= Len(q) /\ SubSeq(q, 1, Len(r)) = r
Children(t, r) == {q \in DOMAIN t : Len(q) = Len(r) + 1 /\ IsPrefixOf(r, q)}

\* a set of sibling resources as a sequence, in the server's listing order
RECURSIVE Ordered(_, _)
Ordered(S, rev) ==
    IF S = {} THEN <<>>
    ELSE LET first == CHOOSE q \in S : \A o \in S :
                         IF rev THEN Rank(o[Len(o)]) <= Rank(q[Len(q)])
                                ELSE Rank(q[Len(q)]) <= Rank(o[Len(o)])
         IN <<first>> \o Ordered(S \ {first}, rev)

\* the href the server writes for resource r
Href(t, r, pre, slash) ==
    IF r = <<>> THEN (IF slash \/ pre = <<>> THEN pre \o <<"/">> ELSE pre)
    ELSE pre \o <<"/">> \o join(r) \o (IF IsDir(t, r) /\ slash THEN <<"/">> ELSE <<>>)

Entry(t, r, pre, slash) == [href |-> Href(t, r, pre, slash), collection |-> IsDir(t, r)]

\* the <response> elements of a PROPFIND on r: r itself, then what is below it
RECURSIVE Subtree(_, _, _, _, _, _)
Subtree(t, rs, levels, pre, slash, rev) ==
    IF rs = <<>> THEN <<>>
    ELSE <<Entry(t, Head(rs), pre, slash)>>
         \o (IF levels > 0
             THEN Subtree(t, Ordered(Children(t, Head(rs)), rev), levels - 1, pre, slash, rev)
             ELSE <<>>)
         \o Subtree(t, Tail(rs), levels, pre, slash, rev)

DepthLevels(depth) == IF depth = "0" THEN 0 ELSE IF depth = "1" THEN 1 ELSE 8

\* the resource a request URL addresses: the URL path below the mount point
Resource(url, pre) ==
    LET pn == pathname(url)
    IN IF Len(pn) >= Len(pre) /\ SubSeq(pn, 1, Len(pre)) = pre
       THEN splitFilter(SubSeq(pn, Len(pre) + 1, Len(pn)))
       ELSE <<<<"?">>>>

Parent(r) == SubSeq(r, 1, Len(r) - 1)

\* the files of a tree
Files(t) == {q \in DOMAIN t : ~t[q]}

\* resource q, below or equal to r, carried over to the same place below d
Rebase(q, r, d) == d \o SubSeq(q, Len(r) + 1, Len(q))

\* status and body the server answers a request with
ServerStatus(t, req, pre) ==
    LET r == Resource(req.url, pre)
        d == Resource(req.dest, pre)
    IN CASE req.method = "PROPFIND" -> IF Exists(t, r) THEN 207 ELSE 404
         [] req.method = "DELETE" ->
                IF r = <<>> THEN 403 ELSE IF Exists(t, r) THEN 204 ELSE 404
         [] req.method = "MKCOL" ->
                IF Exists(t, r) THEN 405
                ELSE IF ~IsDir(t, Parent(r)) THEN 409 ELSE 201
         [] req.method = "GET" ->
                IF ~Exists(t, r) THEN 404 ELSE IF IsDir(t, r) THEN 405 ELSE 200
         [] req.method = "HEAD" -> IF Exists(t, r) THEN 200 ELSE 404
         [] req.method = "PUT" ->
                IF IsDir(t, r) THEN 405
                ELSE IF ~IsDir(t, Parent(r)) THEN 409
                ELSE IF Exists(t, r) THEN 204 ELSE 201
         [] req.method \in {"COPY", "MOVE"} ->
                IF ~Exists(t, r) THEN 404
                ELSE IF Exists(t, d) /\ req.overwrite = "F" THEN 412
                ELSE IF IsPrefixOf(r, d) \/ IsPrefixOf(d, r) THEN 403
                ELSE IF ~IsDir(t, Parent(d)) THEN 409
                ELSE IF Exists(t, d) THEN 204 ELSE 201
         [] OTHER -> 405

ServerData(t, c, req, pre, slash, rev) ==
    LET r == Resource(req.url, pre)
    IN IF req.method = "PROPFIND" /\ Exists(t, r)
       THEN Subtree(t, <<r>>, DepthLevels(req.depth), pre, slash, rev)
       ELSE IF req.method = "GET" /\ r \in Files(t) THEN c[r]
       ELSE <<>>

\* the tree after the server has carried out the request
ServerTree(t, req, pre) ==
    LET r == Resource(req.url, pre)
        d == Resource(req.dest, pre)
        st == ServerStatus(t, req, pre)
        kept == {x \in DOMAIN t : ~IsPrefixOf(d, x)
                                  /\ (req.method = "MOVE" => ~IsPrefixOf(r, x))}
        moved == {x \in DOMAIN t : IsPrefixOf(r, x)}
    IN CASE req.method = "DELETE" /\ st = 204 ->
                [q \in {x \in DOMAIN t : ~IsPrefixOf(r, x)} |-> t[q]]
         [] req.method = "MKCOL" /\ st = 201 ->
                [q \in DOMAIN t \cup {r} |-> IF q = r THEN TRUE ELSE t[q]]
         [] req.method = "PUT" /\ st \in {201, 204} ->
                [q \in DOMAIN t \cup {r} |-> IF q = r THEN FALSE ELSE t[q]]
         [] req.method \in {"COPY", "MOVE"} /\ st \in {201, 204} ->
                [q \in kept \cup {Rebase(x, r, d) : x \in moved} |->
                    IF IsPrefixOf(d, q) THEN t[Rebase(q, d, r)] ELSE t[q]]
         [] OTHER -> t

\* the bytes of the files after the server has carried out the request
ServerContent(t, c, req, pre) ==
    LET r == Resource(req.url, pre)
        d == Resource(req.dest, pre)
        st == ServerStatus(t, req, pre)
    IN [q \in Files(ServerTree(t, req, pre)) |->
           CASE req.method = "PUT" /\ st \in {201, 204} /\ q = r -> req.body
             [] req.method \in {"COPY", "MOVE"} /\ st \in {201, 204}
                    /\ IsPrefixOf(d, q) -> c[Rebase(q, d, r)]
             [] OTHER -> c[q]]

----------------------------------------------------------------------------
(* Multistatus parsing *)

\* the name parseWebDAVXml derives from an href
EntryName(href, basePath) ==
    LET isBasePathFile == basePath # <<>> /\ ~endsWith(basePath, "/")
        parts == splitFilter(href)
    IN IF isBasePathFile
       THEN (IF parts = <<>> THEN <<>> ELSE parts[Len(parts)])
       ELSE StripOneTrailingSlash(StripOneLeadingSlash(replaceFirst(href, basePath)))

RECURSIVE parseWebDAVXml(_, _)
parseWebDAVXml(xml, basePath) ==
    IF xml = <<>> THEN <<>>
    ELSE LET item == Head(xml)
             name == EntryName(item.href, basePath)
             rest == parseWebDAVXml(Tail(xml), basePath)
         IN IF name = <<>> THEN rest
            ELSE <<[path |-> item.href, name |-> name,
                    isDirectory |-> item.collection]>> \o rest

----------------------------------------------------------------------------
(* Errors and return values *)

\* the status field of an error constructed without a status
NoStatus == -1

NoRet == [tag |-> "none", kind |-> "", status |-> 0, path |-> <<>>,
          files |-> <<>>, data |-> <<>>, flag |-> FALSE]

\* a resolved promise
Ok == [NoRet EXCEPT !.tag = "ok"]
OkResponse(status, data) == [Ok EXCEPT !.status = status, !.data = data]
OkFiles(files) == [Ok EXCEPT !.files = files]
OkFlag(b) == [Ok EXCEPT !.flag = b]

\* a rejected promise: the class of the error, its status and the path it names
Err(kind, status, path) ==
    [NoRet EXCEPT !.tag = "err", !.kind = kind, !.status = status, !.path = path]

NotFoundError(path) == Err("NotFoundError", 404, path)
FileExistsError(path) == Err("FileExistsError", 412, path)
TimeoutError(url) == Err("TimeoutError", 408, url)
NetworkError(url) == Err("NetworkError", 0, url)

handleResponseError(status, path) ==
    CASE status = 401 -> Err("AuthenticationError", 401, path)
      [] status = 403 -> Err("AuthorizationError", 403, path)
      [] status = 404 -> NotFoundError(path)
      [] status = 409 -> FileExistsError(path)
      [] OTHER -> Err("ServerError", status, path)

----------------------------------------------------------------------------
(* Call stack *)

Frame(op, path) ==
    [op |-> op, pc |-> "start", path |-> path, recursive |-> "unset",
     force |-> FALSE, hidden |-> FALSE, method |-> "", depth |-> "",
     files |-> <<>>, i |-> 0,
     dest |-> <<>>, overwrite |-> "unset", data |-> <<>>, body |-> <<>>,
     encoding |-> "", useCache |-> TRUE, moved |-> <<>>]

RequestFrame(method, path, depth) ==
    [Frame("request", path) EXCEPT !.method = method, !.depth = depth]

Top == Head(stack)
Running(op, pc) == stack # <<>> /\ Top.op = op /\ Top.pc = pc
Resumed(op, pc) == Running(op, pc) /\ ret.tag # "none"

\* await f: the caller waits at pc for the callee's outcome
Invoke(f, pc) ==
    /\ stack' = <<f, [Top EXCEPT !.pc = pc]>> \o Tail(stack)
    /\ ret' = NoRet
    /\ UNCHANGED result

\* as Invoke, after the caller has updated its own locals
InvokeFrom(caller, f, pc) ==
    /\ stack' = <<f, [caller EXCEPT !.pc = pc]>> \o Tail(stack)
    /\ ret' = NoRet
    /\ UNCHANGED result

\* return or throw r to the caller; a public call hands r to the user
Return(r) ==
    /\ stack' = Tail(stack)
    /\ IF Len(stack) = 1
       THEN ret' = NoRet /\ result' = r
       ELSE ret' = r /\ UNCHANGED result

NoReq == [method |-> "", url |-> <<>>, depth |-> "", body |-> <<>>,
          dest |-> <<>>, overwrite |-> ""]
NoResp == [tag |-> "none", status |-> 0, data |-> <<>>]

\* what is fixed once the adapter is constructed and the server is set up
server == <<prefix, trailing, listRev, caching, options>>

----------------------------------------------------------------------------
(* request: one fetch per call *)

\* statuses a server may answer instead of carrying the request out
FaultStatuses == {401, 403, 409, 500}

\* request that does not wait for fetch to settle
RequestSendNoAwait ==
    /\ Running("request", "start")
    /\ LET req == [method |-> Top.method,
                   url |-> joinUrl(baseUrl, normalizePath(Top.path)),
                   depth |-> Top.depth]
       IN /\ inflight' = [NoReq EXCEPT !.method = req.method, !.url = req.url,
                                       !.depth = req.depth, !.body = Top.body,
                                       !.dest = Top.dest,
                                       !.overwrite = Top.overwrite]
          /\ log' = Append(log, req)
    /\ Return(OkResponse(207, <<>>))
    /\ UNCHANGED <<server, content, others, cache, tree, resp, answers, trace, call, faults>>

RequestSend ==
    /\ Running("request", "start")
    /\ LET req == [method |-> Top.method,
                   url |-> joinUrl(baseUrl, normalizePath(Top.path)),
                   depth |-> Top.depth]
       IN /\ inflight' = [NoReq EXCEPT !.method = req.method, !.url = req.url,
                                       !.depth = req.depth, !.body = Top.body,
                                       !.dest = Top.dest,
                                       !.overwrite = Top.overwrite]
          /\ log' = Append(log, req)
    /\ stack' = <<[Top EXCEPT !.pc = "wait"]>> \o Tail(stack)
    /\ UNCHANGED <<server, content, others, cache, tree, ret, resp, answers, trace, call, result, faults>>

ServerRespond ==
    /\ inflight.method # ""
    /\ resp' = [tag |-> "http",
                status |-> ServerStatus(tree, inflight, prefix),
                data |-> ServerData(tree, content, inflight, prefix, trailing, listRev)]
    /\ tree' = ServerTree(tree, inflight, prefix)
    /\ content' = ServerContent(tree, content, inflight, prefix)
    /\ inflight' = NoReq
    /\ UNCHANGED <<server, others, cache, stack, ret, log, answers, trace, call, result, faults>>

ServerFault ==
    /\ inflight.method # ""
    /\ faults < MaxFaults
    /\ \E st \in FaultStatuses : resp' = [tag |-> "http", status |-> st, data |-> <<>>]
    /\ inflight' = NoReq
    /\ faults' = faults + 1
    /\ UNCHANGED <<server, content, others, cache, tree, stack, ret, log, answers, trace, call, result>>

\* the timeout aborts the pending fetch, or fetch fails on the network
FetchReject ==
    /\ inflight.method # ""
    /\ faults < MaxFaults
    /\ \E tag \in {"abort", "neterr"} : resp' = [tag |-> tag, status |-> 0, data |-> <<>>]
    /\ inflight' = NoReq
    /\ faults' = faults + 1
    /\ UNCHANGED <<server, content, others, cache, tree, stack, ret, log, answers, trace, call, result>>

\* request that fetches again after a fetch was aborted or failed
RequestSettleRetry ==
    /\ Running("request", "wait")
    /\ resp.tag # "none"
    /\ IF resp.tag = "http"
       THEN Return(OkResponse(resp.status, resp.data))
       ELSE /\ stack' = <<[Top EXCEPT !.pc = "start"]>> \o Tail(stack)
            /\ UNCHANGED <<ret, result>>
    /\ answers' = Append(answers, resp)
    /\ resp' = NoResp
    /\ UNCHANGED <<server, content, others, cache, tree, inflight, log, trace, call, faults>>

RequestSettle ==
    /\ Running("request", "wait")
    /\ resp.tag # "none"
    /\ LET url == joinUrl(baseUrl, normalizePath(Top.path))
       IN Return(CASE resp.tag = "http" -> OkResponse(resp.status, resp.data)
                   [] resp.tag = "abort" -> TimeoutError(url)
                   [] OTHER -> NetworkError(url))
    /\ answers' = Append(answers, resp)
    /\ resp' = NoResp
    /\ UNCHANGED <<server, content, others, cache, tree, inflight, log, trace, call, faults>>

----------------------------------------------------------------------------
(* stat, exists, readDir, _delete *)

StatCall ==
    /\ Running("stat", "start")
    /\ Invoke(RequestFrame("PROPFIND", normalizePath(Top.path), "0"), "resp")
    /\ UNCHANGED <<server, content, others, cache, tree, inflight, resp, log, answers, trace, call, faults>>

\* StatOutcome with a status test that lets client errors through
StatOutcomeServerErrorsOnly(r, normalizedPath) ==
    IF r.tag = "err" THEN r
    ELSE IF r.status = 404 THEN NotFoundError(normalizedPath)
    ELSE IF r.status >= 500 THEN handleResponseError(r.status, normalizedPath)
    ELSE LET files == parseWebDAVXml(r.data, normalizedPath)
         IN IF Len(files) = 0 THEN NotFoundError(normalizedPath)
            ELSE OkFiles(<<files[1]>>)

\* what stat makes of the response to its PROPFIND
StatOutcome(r, normalizedPath) ==
    IF r.tag = "err" THEN r
    ELSE IF r.status = 404 THEN NotFoundError(normalizedPath)
    ELSE IF r.status >= 400 THEN handleResponseError(r.status, normalizedPath)
    ELSE LET files == parseWebDAVXml(r.data, normalizedPath)
         IN IF Len(files) = 0 THEN NotFoundError(normalizedPath)
            ELSE OkFiles(<<files[1]>>)

StatResp ==
    /\ Resumed("stat", "resp")
    /\ Return(StatOutcome(ret, normalizePath(Top.path)))
    /\ UNCHANGED <<server, content, others, cache, tree, inflight, resp, log, answers, trace, call, faults>>

ExistsCall ==
    /\ Running("exists", "start")
    /\ Invoke(Frame("stat", Top.path), "stat")
    /\ UNCHANGED <<server, content, others, cache, tree, inflight, resp, log, answers, trace, call, faults>>

\* ExistsOutcome with a catch that turns every error into false
ExistsOutcomeAnyError(r) ==
    IF r.tag = "ok" THEN OkFlag(TRUE) ELSE OkFlag(FALSE)

ExistsOutcome(r) ==
    IF r.tag = "ok" THEN OkFlag(TRUE)
    ELSE IF r.kind = "NotFoundError" THEN OkFlag(FALSE)
    ELSE r

ExistsResp ==
    /\ Resumed("exists", "stat")
    /\ Return(ExistsOutcome(ret))
    /\ UNCHANGED <<server, content, others, cache, tree, inflight, resp, log, answers, trace, call, faults>>

ReadDirCall ==
    /\ Running("readDir", "start")
    /\ Invoke(RequestFrame("PROPFIND", normalizePath(Top.path),
                           IF Top.recursive = "true" THEN "infinity" ELSE "1"), "resp")
    /\ UNCHANGED <<server, content, others, cache, tree, inflight, resp, log, answers, trace, call, faults>>

\* the filter of readDir: the queried directory itself and hidden names
ReadDirKeeps(file, normalizedPath, includeHidden) ==
    /\ file.path # normalizedPath
    /\ includeHidden \/ ~startsWith(file.name, ".")

ReadDirOutcome(r, normalizedPath, includeHidden) ==
    IF r.tag = "err" THEN r
    ELSE IF r.status >= 400 THEN handleResponseError(r.status, normalizedPath)
    ELSE OkFiles(SelectSeq(parseWebDAVXml(r.data, normalizedPath),
                           LAMBDA f : ReadDirKeeps(f, normalizedPath, includeHidden)))

ReadDirResp ==
    /\ Resumed("readDir", "resp")
    /\ Return(ReadDirOutcome(ret, normalizePath(Top.path), Top.hidden))
    /\ UNCHANGED <<server, content, others, cache, tree, inflight, resp, log, answers, trace, call, faults>>

DeleteCall ==
    /\ Running("_delete", "start")
    /\ Invoke(RequestFrame("DELETE", normalizePath(Top.path), ""), "resp")
    /\ UNCHANGED <<server, content, others, cache, tree, inflight, resp, log, answers, trace, call, faults>>

DeleteOutcome(r, normalizedPath) ==
    IF r.tag = "err" THEN r
    ELSE IF r.status >= 400 THEN handleResponseError(r.status, normalizedPath)
    ELSE OkResponse(r.status, <<>>)

DeleteResp ==
    /\ Resumed("_delete", "resp")
    /\ Return(DeleteOutcome(ret, normalizePath(Top.path)))
    /\ UNCHANGED <<server, content, others, cache, tree, inflight, resp, log, answers, trace, call, faults>>

----------------------------------------------------------------------------
(* mkdir *)

MkdirCall ==
    /\ Running("mkdir", "start")
    /\ Invoke(Frame("stat", normalizePath(Top.path)), "stat")
    /\ UNCHANGED <<server, content, others, cache, tree, inflight, resp, log, answers, trace, call, faults>>

\* MkdirParentDir without the test that keeps mkdir away from the root
MkdirParentDirWithRoot(normalizedPath, recursive) ==
    LET parentDir == getDirFromPath(normalizedPath)
    IN IF recursive # "false" /\ parentDir # normalizedPath THEN parentDir ELSE <<>>

\* the parent mkdir looks at before creating normalizedPath, "" when none
MkdirParentDir(normalizedPath, recursive) ==
    LET parentDir == getDirFromPath(normalizedPath)
    IN IF recursive # "false" /\ parentDir # <<"/">> /\ parentDir # normalizedPath
       THEN parentDir ELSE <<>>

Mkcol(normalizedPath) == RequestFrame("MKCOL", normalizedPath, "")

\* the check whether the directory exists already
MkdirStat ==
    /\ Resumed("mkdir", "stat")
    /\ LET normalizedPath == normalizePath(Top.path)
           parentDir == MkdirParentDir(normalizedPath, Top.recursive)
       IN IF ret.tag = "ok"
          THEN (IF ret.files[1].isDirectory THEN Return(Ok)
                ELSE Return(FileExistsError(normalizedPath)))
          ELSE IF ret.kind # "NotFoundError" THEN Return(ret)
          ELSE IF parentDir # <<>> THEN Invoke(Frame("stat", parentDir), "parentStat")
          ELSE Invoke(Mkcol(normalizedPath), "mkcol")
    /\ UNCHANGED <<server, content, others, cache, tree, inflight, resp, log, answers, trace, call, faults>>

MkdirParentStat ==
    /\ Resumed("mkdir", "parentStat")
    /\ LET normalizedPath == normalizePath(Top.path)
           parentDir == getDirFromPath(normalizedPath)
       IN IF ret.tag = "ok" THEN Invoke(Mkcol(normalizedPath), "mkcol")
          ELSE IF ret.kind = "NotFoundError"
          THEN Invoke([Frame("mkdir", parentDir) EXCEPT !.recursive = Top.recursive],
                      "parent")
          ELSE Return(ret)
    /\ UNCHANGED <<server, content, others, cache, tree, inflight, resp, log, answers, trace, call, faults>>

MkdirParent ==
    /\ Resumed("mkdir", "parent")
    /\ IF ret.tag = "ok" THEN Invoke(Mkcol(normalizePath(Top.path)), "mkcol")
       ELSE Return(ret)
    /\ UNCHANGED <<server, content, others, cache, tree, inflight, resp, log, answers, trace, call, faults>>

MkdirMkcol ==
    /\ Resumed("mkdir", "mkcol")
    /\ IF ret.tag = "err" THEN Return(ret)
       ELSE IF ret.status >= 400
       THEN Return(handleResponseError(ret.status, normalizePath(Top.path)))
       ELSE Return(Ok)
    /\ UNCHANGED <<server, content, others, cache, tree, inflight, resp, log, answers, trace, call, faults>>

----------------------------------------------------------------------------
(* rm, rmdir *)

\* an entry of the history of rm: e is "call" (rm entered), "list" (the names
\* readDir gave rm), "throw" (an error reached the catch block of rm), or
\* "ok" / "err" (rm resolved / rejected); at counts the requests sent before,
\* level is the depth of the call stack at the rm that writes the entry
Event(e, path, names, r) ==
    [e |-> e, path |-> path, names |-> names, kind |-> r.kind, status |-> r.status,
     about |-> r.path, at |-> Len(log), level |-> Len(stack)]

\* RmCatch with a force that suppresses every error
RmCatchAnyError(err, force) == IF force THEN Ok ELSE err

\* the catch block of rm
RmCatch(err, force) == IF force /\ err.status = 404 THEN Ok ELSE err

\* rm returns or throws r
RmReturn(r) ==
    /\ Return(r)
    /\ trace' = Append(trace, Event(r.tag, Top.path, <<>>, r))

RmThrow(err) ==
    LET r == RmCatch(err, Top.force)
    IN /\ Return(r)
       /\ trace' = trace \o <<Event("throw", Top.path, <<>>, err),
                                Event(r.tag, Top.path, <<>>, r)>>

childPath(path, name) == StripOneTrailingSlash(path) \o <<"/">> \o name

RmFrame(path, recursive, force) ==
    [Frame("rm", path) EXCEPT !.recursive = recursive, !.force = force]

RmCall ==
    /\ Running("rm", "start")
    /\ Invoke(Frame("stat", Top.path), "stat")
    /\ trace' = Append(trace, Event("call", Top.path, <<>>, NoRet))
    /\ UNCHANGED <<server, content, others, cache, tree, inflight, resp, log, answers, call, faults>>

RmStat ==
    /\ Resumed("rm", "stat")
    /\ IF ret.tag = "err" THEN RmThrow(ret)
       ELSE /\ UNCHANGED trace
            /\ IF ret.files[1].isDirectory
               THEN Invoke(Frame("readDir", Top.path),
                           IF Top.recursive = "true" THEN "list" ELSE "check")
               ELSE Invoke(Frame("_delete", Top.path), "delete")
    /\ UNCHANGED <<server, content, others, cache, tree, inflight, resp, log, answers, call, faults>>

\* the listing of a directory that is removed recursively has arrived
RmList ==
    /\ Resumed("rm", "list")
    /\ IF ret.tag = "err" THEN RmThrow(ret)
       ELSE /\ trace' = Append(trace, Event("list", Top.path,
                                [k \in 1..Len(ret.files) |-> ret.files[k].name], NoRet))
            /\ IF ret.files = <<>> THEN Invoke(Frame("_delete", Top.path), "delete")
               ELSE InvokeFrom([Top EXCEPT !.files = ret.files, !.i = 1],
                               RmFrame(childPath(Top.path, ret.files[1].name),
                                       "true", Top.force),
                               "child")
    /\ UNCHANGED <<server, content, others, cache, tree, inflight, resp, log, answers, call, faults>>

\* RmChild with a loop that goes on to the next child when one fails
RmChildKeepsGoing ==
    /\ Resumed("rm", "child")
    /\ UNCHANGED trace
    /\ IF Top.i = Len(Top.files) THEN Invoke(Frame("_delete", Top.path), "delete")
       ELSE InvokeFrom([Top EXCEPT !.i = Top.i + 1],
                       RmFrame(childPath(Top.path, Top.files[Top.i + 1].name),
                               "true", Top.force),
                       "child")
    /\ UNCHANGED <<server, content, others, cache, tree, inflight, resp, log, answers, call, faults>>

\* the removal of child i has settled
RmChild ==
    /\ Resumed("rm", "child")
    /\ IF ret.tag = "err" THEN RmThrow(ret)
       ELSE /\ UNCHANGED trace
            /\ IF Top.i = Len(Top.files) THEN Invoke(Frame("_delete", Top.path), "delete")
               ELSE InvokeFrom([Top EXCEPT !.i = Top.i + 1],
                               RmFrame(childPath(Top.path, Top.files[Top.i + 1].name),
                                       "true", Top.force),
                               "child")
    /\ UNCHANGED <<server, content, others, cache, tree, inflight, resp, log, answers, call, faults>>

\* the listing of a directory that is removed without recursive has arrived
RmCheck ==
    /\ Resumed("rm", "check")
    /\ IF ret.tag = "err" THEN RmThrow(ret)
       ELSE IF Len(ret.files) > 0 THEN RmThrow(Err("WebDAVError", NoStatus, Top.path))
       ELSE /\ UNCHANGED trace
            /\ Invoke(Frame("_delete", Top.path), "delete")
    /\ UNCHANGED <<server, content, others, cache, tree, inflight, resp, log, answers, call, faults>>

RmDelete ==
    /\ Resumed("rm", "delete")
    /\ IF ret.tag = "err" THEN RmThrow(ret) ELSE RmReturn(Ok)
    /\ UNCHANGED <<server, content, others, cache, tree, inflight, resp, log, answers, call, faults>>

RmdirCall ==
    /\ Running("rmdir", "start")
    /\ Invoke(RmFrame(Top.path, Top.recursive, Top.force), "rm")
    /\ UNCHANGED <<server, content, others, cache, tree, inflight, resp, log, answers, trace, call, faults>>

RmdirReturn ==
    /\ Resumed("rmdir", "rm")
    /\ Return(ret)
    /\ UNCHANGED <<server, content, others, cache, tree, inflight, resp, log, answers, trace, call, faults>>

----------------------------------------------------------------------------
(* Text and bytes *)

\* Characters are "a" (U+0061), "e9" (U+00E9), "feff" (U+FEFF, the byte order
\* mark) and "fffd" (U+FFFD); bytes are written in hexadecimal.  The files of
\* the model hold no multi-byte sequence other than those of these characters.

\* the UTF-8 bytes fetch sends for a string body
RECURSIVE utf8Encode(_)
utf8Encode(str) ==
    IF str = <<>> THEN <<>>
    ELSE (CASE Head(str) = "a" -> <<"61">>
            [] Head(str) = "e9" -> <<"C3", "A9">>
            [] Head(str) = "feff" -> <<"EF", "BB", "BF">>
            [] OTHER -> <<"EF", "BF", "BD">>) \o utf8Encode(Tail(str))

\* bytes 0x80..0xBF
Continuation == {"A9", "BB", "BF", "BD"}

\* buffer.toString('utf8'): malformed input becomes U+FFFD
RECURSIVE utf8Decode(_)
utf8Decode(bytes) ==
    IF bytes = <<>> THEN <<>>
    ELSE LET n == Len(bytes)
             rest(k) == utf8Decode(SubSeq(bytes, k + 1, n))
         IN CASE bytes[1] = "61" -> <<"a">> \o rest(1)
              [] bytes[1] = "C3" /\ n >= 2 /\ bytes[2] = "A9" -> <<"e9">> \o rest(2)
              [] bytes[1] = "EF" /\ n >= 3 /\ bytes[2] = "BF" /\ bytes[3] = "BD" ->
                     <<"fffd">> \o rest(3)
              [] bytes[1] = "EF" /\ n >= 3 /\ bytes[2] = "BB" /\ bytes[3] = "BF" ->
                     <<"feff">> \o rest(3)
              [] bytes[1] = "EF" /\ n >= 2 /\ bytes[2] \in Continuation
                     /\ ~(n >= 3 /\ bytes[3] \in Continuation) ->
                     <<"fffd">> \o rest(2)
              [] OTHER -> <<"fffd">> \o rest(1)

\* response.text(): UTF-8 without the byte order mark at the front
text(bytes) ==
    IF Len(bytes) >= 3 /\ SubSeq(bytes, 1, 3) = <<"EF", "BB", "BF">>
    THEN utf8Decode(SubSeq(bytes, 4, Len(bytes)))
    ELSE utf8Decode(bytes)

\* buffer.toString('latin1'): one character per byte
latin1Decode(bytes) ==
    [k \in 1..Len(bytes) |->
        IF bytes[k] = "61" THEN "a" ELSE IF bytes[k] = "E9" THEN "e9"
        ELSE "x" \o bytes[k]]

\* buffer.toString(encoding)
toString(bytes, encoding) ==
    IF encoding = "latin1" THEN latin1Decode(bytes) ELSE utf8Decode(bytes)

\* data handed to the adapter: a string or a Buffer
Str(v) == [kind |-> "string", v |-> v]
Buf(v) == [kind |-> "Buffer", v |-> v]

\* the bytes fetch sends for a body
Body(data) == IF data.kind = "string" THEN utf8Encode(data.v) ELSE data.v

----------------------------------------------------------------------------
(* readFile, writeFile, deleteFile, unlink, copy, move *)

ArgumentError(path) == Err("ArgumentError", NoStatus, path)

\* a resolved readFile: a string or a Buffer
OkData(kind, v) == [Ok EXCEPT !.kind = kind, !.data = v]

ReadFileCall ==
    /\ Running("readFile", "start")
    /\ Invoke(RequestFrame("GET", normalizePath(Top.path), ""), "resp")
    /\ UNCHANGED <<server, content, others, cache, tree, inflight, resp, log, answers, trace, call, faults>>

\* ReadFileOutcome with a catch that wraps every error in a new WebDAVError
ReadFileOutcomeRewrapped(r, normalizedPath, encoding) ==
    IF r.tag = "err" THEN Err("WebDAVError", NoStatus, normalizedPath)
    ELSE IF r.status >= 400 THEN handleResponseError(r.status, normalizedPath)
    ELSE IF encoding # "" THEN OkData("string", toString(r.data, encoding))
    ELSE OkData("Buffer", r.data)

ReadFileOutcome(r, normalizedPath, encoding) ==
    IF r.tag = "err" THEN r
    ELSE IF r.status >= 400 THEN handleResponseError(r.status, normalizedPath)
    ELSE IF encoding # "" THEN OkData("string", toString(r.data, encoding))
    ELSE OkData("Buffer", r.data)

ReadFileResp ==
    /\ Resumed("readFile", "resp")
    /\ Return(ReadFileOutcome(ret, normalizePath(Top.path), Top.encoding))
    /\ UNCHANGED <<server, content, others, cache, tree, inflight, resp, log, answers, trace, call, faults>>

\* a PUT that leaves the data out of the request
PutWithoutBody(normalizedPath, data) == RequestFrame("PUT", normalizedPath, "")

\* the PUT of writeFile
Put(normalizedPath, data) ==
    [RequestFrame("PUT", normalizedPath, "") EXCEPT !.body = Body(data)]

WriteFileCall ==
    /\ Running("writeFile", "start")
    /\ IF Top.overwrite = "false"
       THEN Invoke(Frame("exists", normalizePath(Top.path)), "exists")
       ELSE Invoke(Put(normalizePath(Top.path), Top.data), "resp")
    /\ UNCHANGED <<server, content, others, cache, tree, inflight, resp, log, answers, trace, call, faults>>

\* what writeFile makes of the outcome of exists: Ok stands for going on
WriteFileProbe(r, normalizedPath) ==
    IF r.tag = "err" THEN r
    ELSE IF r.flag THEN FileExistsError(normalizedPath)
    ELSE Ok

WriteFileExists ==
    /\ Resumed("writeFile", "exists")
    /\ LET normalizedPath == normalizePath(Top.path)
           go == WriteFileProbe(ret, normalizedPath)
       IN IF go.tag = "err" THEN Return(go)
          ELSE Invoke(Put(normalizedPath, Top.data), "resp")
    /\ UNCHANGED <<server, content, others, cache, tree, inflight, resp, log, answers, trace, call, faults>>

\* { success, statusCode } or the error of the status
WriteFileOutcome(r, normalizedPath) ==
    IF r.tag = "err" THEN r
    ELSE IF r.status >= 400 THEN handleResponseError(r.status, normalizedPath)
    ELSE OkResponse(r.status, <<>>)

WriteFileResp ==
    /\ Resumed("writeFile", "resp")
    /\ Return(WriteFileOutcome(ret, normalizePath(Top.path)))
    /\ UNCHANGED <<server, content, others, cache, tree, inflight, resp, log, answers, trace, call, faults>>

DeleteFileCall ==
    /\ Running("deleteFile", "start")
    /\ Invoke(Frame("stat", normalizePath(Top.path)), "stat")
    /\ UNCHANGED <<server, content, others, cache, tree, inflight, resp, log, answers, trace, call, faults>>

\* deleteFile without the test for a directory
DeleteFileCheckSkipped(r, normalizedPath) == IF r.tag = "err" THEN r ELSE Ok

\* what deleteFile makes of the outcome of stat: Ok stands for going on
DeleteFileCheck(r, normalizedPath) ==
    IF r.tag = "err" THEN r
    ELSE IF r.files[1].isDirectory THEN ArgumentError(normalizedPath)
    ELSE Ok

DeleteFileStat ==
    /\ Resumed("deleteFile", "stat")
    /\ LET normalizedPath == normalizePath(Top.path)
           go == DeleteFileCheck(ret, normalizedPath)
       IN IF go.tag = "err" THEN Return(go)
          ELSE Invoke(RequestFrame("DELETE", normalizedPath, ""), "resp")
    /\ UNCHANGED <<server, content, others, cache, tree, inflight, resp, log, answers, trace, call, faults>>

DeleteFileOutcome(r, normalizedPath) ==
    IF r.tag = "err" THEN r
    ELSE IF r.status >= 400 THEN handleResponseError(r.status, normalizedPath)
    ELSE OkResponse(r.status, <<>>)

DeleteFileResp ==
    /\ Resumed("deleteFile", "resp")
    /\ Return(DeleteFileOutcome(ret, normalizePath(Top.path)))
    /\ UNCHANGED <<server, content, others, cache, tree, inflight, resp, log, answers, trace, call, faults>>

UnlinkCall ==
    /\ Running("unlink", "start")
    /\ Invoke(Frame("deleteFile", Top.path), "deleteFile")
    /\ UNCHANGED <<server, content, others, cache, tree, inflight, resp, log, answers, trace, call, faults>>

UnlinkReturn ==
    /\ Resumed("unlink", "deleteFile")
    /\ Return(IF ret.tag = "err" THEN ret ELSE Ok)
    /\ UNCHANGED <<server, content, others, cache, tree, inflight, resp, log, answers, trace, call, faults>>

\* a request that names the source as its destination
TransferOntoSource(method, normalizedSource, normalizedDestination, overwrite) ==
    [RequestFrame(method, normalizedSource, "") EXCEPT
        !.dest = joinUrl(baseUrl, normalizedSource),
        !.overwrite = IF overwrite = "false" THEN "F" ELSE "T"]

\* the COPY or MOVE request with its Destination and Overwrite headers
Transfer(method, normalizedSource, normalizedDestination, overwrite) ==
    [RequestFrame(method, normalizedSource, "") EXCEPT
        !.dest = joinUrl(baseUrl, normalizedDestination),
        !.overwrite = IF overwrite = "false" THEN "F" ELSE "T"]

\* copy and move after stat(source): probe the destination or send the request
TransferStat(op, method) ==
    /\ Resumed(op, "stat")
    /\ IF ret.tag = "err" THEN Return(ret)
       ELSE IF Top.overwrite = "false"
       THEN Invoke(Frame("exists", normalizePath(Top.dest)), "exists")
       ELSE Invoke(Transfer(method, normalizePath(Top.path), normalizePath(Top.dest),
                            Top.overwrite), "resp")

\* what copy and move make of the outcome of exists: Ok stands for going on
TransferProbe(r, normalizedDestination) ==
    IF r.tag = "err" THEN r
    ELSE IF r.flag THEN FileExistsError(normalizedDestination)
    ELSE Ok

TransferExists(op, method) ==
    /\ Resumed(op, "exists")
    /\ LET go == TransferProbe(ret, normalizePath(Top.dest))
       IN IF go.tag = "err" THEN Return(go)
          ELSE Invoke(Transfer(method, normalizePath(Top.path), normalizePath(Top.dest),
                               Top.overwrite), "resp")

TransferOutcome(r, normalizedSource) ==
    IF r.tag = "err" THEN r
    ELSE IF r.status >= 400 THEN handleResponseError(r.status, normalizedSource)
    ELSE OkResponse(r.status, <<>>)

CopyCall ==
    /\ Running("copy", "start")
    /\ Invoke(Frame("stat", normalizePath(Top.path)), "stat")
    /\ UNCHANGED <<server, content, others, cache, tree, inflight, resp, log, answers, trace, call, faults>>

CopyStat ==
    /\ TransferStat("copy", "COPY")
    /\ UNCHANGED <<server, content, others, cache, tree, inflight, resp, log, answers, trace, call, faults>>

CopyExists ==
    /\ TransferExists("copy", "COPY")
    /\ UNCHANGED <<server, content, others, cache, tree, inflight, resp, log, answers, trace, call, faults>>

CopyResp ==
    /\ Resumed("copy", "resp")
    /\ Return(TransferOutcome(ret, normalizePath(Top.path)))
    /\ UNCHANGED <<server, content, others, cache, tree, inflight, resp, log, answers, trace, call, faults>>

MoveCall ==
    /\ Running("move", "start")
    /\ Invoke(Frame("stat", normalizePath(Top.path)), "stat")
    /\ UNCHANGED <<server, content, others, cache, tree, inflight, resp, log, answers, trace, call, faults>>

MoveStat ==
    /\ TransferStat("move", "MOVE")
    /\ UNCHANGED <<server, content, others, cache, tree, inflight, resp, log, answers, trace, call, faults>>

MoveExists ==
    /\ TransferExists("move", "MOVE")
    /\ UNCHANGED <<server, content, others, cache, tree, inflight, resp, log, answers, trace, call, faults>>

MoveResp ==
    /\ Resumed("move", "resp")
    /\ Return(TransferOutcome(ret, normalizePath(Top.path)))
    /\ UNCHANGED <<server, content, others, cache, tree, inflight, resp, log, answers, trace, call, faults>>

----------------------------------------------------------------------------
(* WebDAVFileSystem: exists, readFile, writeFile, appendFile *)

\* WebDAVFileSystem.normalizePath: a leading slash, no trailing slash
fsNormalizePath(path) ==
    LET normalizedPath == IF startsWith(path, "/") THEN path ELSE <<"/">> \o path
    IN IF Len(normalizedPath) > 1 /\ endsWith(normalizedPath, "/")
       THEN SubSeq(normalizedPath, 1, Len(normalizedPath) - 1)
       ELSE normalizedPath

\* the base URL as the constructor of WebDAVFileSystem keeps it
fsBaseUrl == IF endsWith(baseUrl, "/") THEN baseUrl ELSE baseUrl \o <<"/">>

buildUrl(path) ==
    LET normalizedPath == fsNormalizePath(path)
        baseWithoutSlash == IF endsWith(fsBaseUrl, "/")
                            THEN SubSeq(fsBaseUrl, 1, Len(fsBaseUrl) - 1)
                            ELSE fsBaseUrl
        pathWithoutSlash == IF startsWith(normalizedPath, "/")
                            THEN Tail(normalizedPath) ELSE normalizedPath
    IN baseWithoutSlash \o <<"/">> \o pathWithoutSlash

\* new WebDAVError(message, status)
fsError(status, path) == Err("WebDAVError", status, path)

\* response.ok
ResponseOk(status) == status >= 200 /\ status <= 299

ArrayBuf(v) == [kind |-> "ArrayBuffer", v |-> v]

\* a request that leaves the body out
SendRequestFrameWithoutBody(method, path, data) ==
    [Frame("sendRequest", path) EXCEPT !.method = method]

SendRequestFrame(method, path, data) ==
    [Frame("sendRequest", path) EXCEPT !.method = method, !.body = Body(data)]

SendRequestSend ==
    /\ Running("sendRequest", "start")
    /\ LET req == [method |-> Top.method, url |-> buildUrl(Top.path), depth |-> ""]
       IN /\ inflight' = [NoReq EXCEPT !.method = req.method, !.url = req.url,
                                       !.body = Top.body, !.dest = Top.dest,
                                       !.overwrite = Top.overwrite]
          /\ log' = Append(log, req)
    /\ stack' = <<[Top EXCEPT !.pc = "wait"]>> \o Tail(stack)
    /\ UNCHANGED <<server, content, others, cache, tree, ret, resp, answers, trace, call, result, faults>>

SendRequestSettle ==
    /\ Running("sendRequest", "wait")
    /\ resp.tag # "none"
    /\ Return(CASE resp.tag = "http" -> OkResponse(resp.status, resp.data)
                [] resp.tag = "abort" -> fsError(408, <<>>)
                [] OTHER -> fsError(0, <<>>))
    /\ answers' = Append(answers, resp)
    /\ resp' = NoResp
    /\ UNCHANGED <<server, content, others, cache, tree, inflight, log, trace, call, faults>>

\* WebDAVFileSystem.handleResponseError: the error thrown, or Ok
fsHandleResponseError(status, path) ==
    IF ResponseOk(status) THEN Ok
    ELSE CASE status = 401 -> fsError(401, <<>>)
           [] status = 403 -> fsError(403, path)
           [] status = 404 -> fsError(404, path)
           [] OTHER -> fsError(status, <<>>)

FsExistsCall ==
    /\ Running("fs.exists", "start")
    /\ Invoke(SendRequestFrame("HEAD", Top.path, Str(<<>>)), "resp")
    /\ UNCHANGED <<server, content, others, cache, tree, inflight, resp, log, answers, trace, call, faults>>

FsExistsOutcome(r) ==
    IF r.tag = "ok" THEN OkFlag(ResponseOk(r.status))
    ELSE IF r.status = 404 THEN OkFlag(FALSE)
    ELSE r

FsExistsResp ==
    /\ Resumed("fs.exists", "resp")
    /\ Return(FsExistsOutcome(ret))
    /\ UNCHANGED <<server, content, others, cache, tree, inflight, resp, log, answers, trace, call, faults>>

FsReadFileCall ==
    /\ Running("fs.readFile", "start")
    /\ Invoke(SendRequestFrame("GET", Top.path, Str(<<>>)), "resp")
    /\ UNCHANGED <<server, content, others, cache, tree, inflight, resp, log, answers, trace, call, faults>>

FsReadFileOutcome(r, path, responseType) ==
    IF r.tag = "err" THEN r
    ELSE IF fsHandleResponseError(r.status, path).tag = "err"
    THEN fsHandleResponseError(r.status, path)
    ELSE IF responseType = "arraybuffer" THEN OkData("ArrayBuffer", r.data)
    ELSE OkData("string", text(r.data))

FsReadFileResp ==
    /\ Resumed("fs.readFile", "resp")
    /\ Return(FsReadFileOutcome(ret, Top.path, Top.encoding))
    /\ UNCHANGED <<server, content, others, cache, tree, inflight, resp, log, answers, trace, call, faults>>

FsWriteFileCall ==
    /\ Running("fs.writeFile", "start")
    /\ IF Top.overwrite = "false"
       THEN Invoke(Frame("fs.exists", Top.path), "exists")
       ELSE Invoke(SendRequestFrame("PUT", Top.path, Top.data), "resp")
    /\ UNCHANGED <<server, content, others, cache, tree, inflight, resp, log, answers, trace, call, faults>>

FsWriteFileExists ==
    /\ Resumed("fs.writeFile", "exists")
    /\ IF ret.tag = "err" THEN Return(ret)
       ELSE IF ret.flag THEN Return(fsError(412, Top.path))
       ELSE Invoke(SendRequestFrame("PUT", Top.path, Top.data), "resp")
    /\ UNCHANGED <<server, content, others, cache, tree, inflight, resp, log, answers, trace, call, faults>>

FsWriteFileResp ==
    /\ Resumed("fs.writeFile", "resp")
    /\ Return(IF ret.tag = "err" THEN ret ELSE fsHandleResponseError(ret.status, Top.path))
    /\ UNCHANGED <<server, content, others, cache, tree, inflight, resp, log, answers, trace, call, faults>>

AppendFileCall ==
    /\ Running("appendFile", "start")
    /\ Invoke(Frame("fs.exists", Top.path), "exists")
    /\ UNCHANGED <<server, content, others, cache, tree, inflight, resp, log, answers, trace, call, faults>>

\* appendFile after exists: read what is there, or write the data alone
AppendFileExists ==
    /\ Resumed("appendFile", "exists")
    /\ IF ret.tag = "err" THEN Return(ret)
       ELSE IF ret.flag
       THEN Invoke([Frame("fs.readFile", Top.path) EXCEPT
                       !.encoding = IF Top.data.kind = "string" THEN "text"
                                    ELSE "arraybuffer"], "read")
       ELSE Invoke([Frame("fs.writeFile", Top.path) EXCEPT !.data = Top.data], "write")
    /\ UNCHANGED <<server, content, others, cache, tree, inflight, resp, log, answers, trace, call, faults>>

\* newContent that holds the data alone
newContentDataOnly(existingContent, data) == data

\* existingContent + data, or the two buffers in one
newContent(existingContent, data) ==
    IF data.kind = "string" /\ existingContent.kind = "string"
    THEN Str(existingContent.data \o data.v)
    ELSE IF data.kind = "ArrayBuffer" /\ existingContent.kind = "ArrayBuffer"
    THEN ArrayBuf(existingContent.data \o data.v)
    ELSE fsError(0, <<>>)

AppendFileRead ==
    /\ Resumed("appendFile", "read")
    /\ IF ret.tag = "err" THEN Return(ret)
       ELSE LET merged == newContent(ret, Top.data)
            IN IF "tag" \in DOMAIN merged THEN Return(merged)
               ELSE Invoke([Frame("fs.writeFile", Top.path) EXCEPT !.data = merged],
                           "write")
    /\ UNCHANGED <<server, content, others, cache, tree, inflight, resp, log, answers, trace, call, faults>>

AppendFileWrite ==
    /\ Resumed("appendFile", "write")
    /\ Return(ret)
    /\ UNCHANGED <<server, content, others, cache, tree, inflight, resp, log, answers, trace, call, faults>>

----------------------------------------------------------------------------
(* WebDAVFileSystem: move, rename *)

\* the MOVE of WebDAVFileSystem.move with its Destination and Overwrite headers
FsMoveRequest(source, destination, overwrite) ==
    [SendRequestFrame("MOVE", source, Str(<<>>)) EXCEPT
        !.dest = buildUrl(destination),
        !.overwrite = IF overwrite = "false" THEN "F" ELSE "T"]

FsMoveCall ==
    /\ Running("fs.move", "start")
    /\ Invoke(FsMoveRequest(Top.path, Top.dest, Top.overwrite), "resp")
    /\ UNCHANGED <<server, content, others, cache, tree, inflight, resp, log, answers, trace, call, faults>>

FsMoveResp ==
    /\ Resumed("fs.move", "resp")
    /\ Return(IF ret.tag = "err" THEN ret
              ELSE fsHandleResponseError(ret.status, Top.path))
    /\ UNCHANGED <<server, content, others, cache, tree, inflight, resp, log, answers, trace, call, faults>>

\* the destination rename hands to move
renameDestination(path, newName) ==
    LET parts == splitFilter(path)
        popped == SubSeq(parts, 1, Len(parts) - 1)
        parentDir == IF Len(popped) > 0 THEN <<"/">> \o join(popped) ELSE <<"/">>
    IN parentDir \o <<"/">> \o newName

\* the frame of rename keeps newName in dest
RenameCall ==
    /\ Running("rename", "start")
    /\ Invoke([Frame("fs.move", Top.path) EXCEPT
                   !.dest = renameDestination(Top.path, Top.dest),
                   !.overwrite = Top.overwrite], "move")
    /\ UNCHANGED <<server, content, others, cache, tree, inflight, resp, log, answers, trace, call, faults>>

RenameReturn ==
    /\ Resumed("rename", "move")
    /\ Return(ret)
    /\ UNCHANGED <<server, content, others, cache, tree, inflight, resp, log, answers, trace, call, faults>>

----------------------------------------------------------------------------
(* WebDAVFS with the optional cache: stat, exists, readFile, readDir *)

\* SimpleCache: an entry is found under the kind of the operation and the
\* normalized path.  An entry past its expiry reads as one never set; the
\* model does not follow entries to their expiry.
cacheKey(kind, normalizedPath) == <<kind, normalizedPath>>
cacheHas(c, key) == key \in DOMAIN c
cacheSet(c, key, value) ==
    [k \in DOMAIN c \cup {key} |-> IF k = key THEN value ELSE c[k]]
cacheDelete(c, key) == [k \in DOMAIN c \ {key} |-> c[k]]

createErrorFromStatusCode(status, path) ==
    CASE status = 401 -> Err("AuthenticationError", 401, path)
      [] status = 403 -> Err("AuthorizationError", 403, path)
      [] status = 404 -> NotFoundError(path)
      [] status \in {409, 412} -> Err("FileExistsError", status, path)
      [] OTHER -> Err("ServerError", status, path)

InvalidArgumentError(path) == Err("InvalidArgumentError", NoStatus, path)

CachedStatCall ==
    /\ Running("cached.stat", "start")
    /\ LET normalizedPath == normalizePath(Top.path)
           key == cacheKey("stat", normalizedPath)
       IN IF caching /\ cacheHas(cache, key)
          THEN Return(cache[key])
          ELSE Invoke(RequestFrame("PROPFIND", normalizedPath, "0"), "resp")
    /\ UNCHANGED <<server, content, others, cache, tree, inflight, resp, log, answers, trace, call, faults>>

CachedStatOutcome(r, normalizedPath) ==
    IF r.tag = "err" THEN r
    ELSE IF r.status = 404 THEN NotFoundError(normalizedPath)
    ELSE IF r.status >= 400 THEN createErrorFromStatusCode(r.status, normalizedPath)
    ELSE LET files == parseWebDAVXml(r.data, normalizedPath)
         IN IF Len(files) = 0 THEN NotFoundError(normalizedPath)
            ELSE OkFiles(<<files[1]>>)

\* stat that keeps nothing of what it has read
CachedStatRespUncached ==
    /\ Resumed("cached.stat", "resp")
    /\ Return(CachedStatOutcome(ret, normalizePath(Top.path)))
    /\ UNCHANGED <<server, content, others, cache, tree, inflight, resp, log, answers, trace, call, faults>>

CachedStatResp ==
    /\ Resumed("cached.stat", "resp")
    /\ LET normalizedPath == normalizePath(Top.path)
           stat == CachedStatOutcome(ret, normalizedPath)
       IN /\ Return(stat)
          /\ cache' = IF caching /\ stat.tag = "ok"
                      THEN cacheSet(cache, cacheKey("stat", normalizedPath), stat)
                      ELSE cache
    /\ UNCHANGED <<server, content, others, tree, inflight, resp, log, answers, trace, call, faults>>

CachedExistsCall ==
    /\ Running("cached.exists", "start")
    /\ Invoke(Frame("cached.stat", Top.path), "stat")
    /\ UNCHANGED <<server, content, others, cache, tree, inflight, resp, log, answers, trace, call, faults>>

CachedExistsOutcome(r) ==
    IF r.tag = "ok" THEN OkFlag(TRUE)
    ELSE IF r.kind = "NotFoundError" THEN OkFlag(FALSE)
    ELSE r

CachedExistsResp ==
    /\ Resumed("cached.exists", "stat")
    /\ Return(CachedExistsOutcome(ret))
    /\ UNCHANGED <<server, content, others, cache, tree, inflight, resp, log, answers, trace, call, faults>>

\* what readFile hands out of a Buffer
CachedReadFileReturn(buffer, encoding) ==
    IF encoding # "" THEN OkData("string", toString(buffer, encoding))
    ELSE OkData("Buffer", buffer)

CachedReadFileCall ==
    /\ Running("cached.readFile", "start")
    /\ LET normalizedPath == normalizePath(Top.path)
           key == cacheKey("readFile", normalizedPath)
       IN IF caching /\ Top.useCache /\ cacheHas(cache, key)
          THEN Return(CachedReadFileReturn(cache[key].data, Top.encoding))
          ELSE Invoke(RequestFrame("GET", normalizedPath, ""), "resp")
    /\ UNCHANGED <<server, content, others, cache, tree, inflight, resp, log, answers, trace, call, faults>>

\* the Buffer readFile makes of the response to its GET
CachedReadFileOutcome(r, normalizedPath) ==
    IF r.tag = "err" THEN r
    ELSE IF r.status >= 400 THEN createErrorFromStatusCode(r.status, normalizedPath)
    ELSE OkData("Buffer", r.data)

CachedReadFileResp ==
    /\ Resumed("cached.readFile", "resp")
    /\ LET normalizedPath == normalizePath(Top.path)
           buffer == CachedReadFileOutcome(ret, normalizedPath)
       IN /\ Return(IF buffer.tag = "err" THEN buffer
                    ELSE CachedReadFileReturn(buffer.data, Top.encoding))
          /\ cache' = IF caching /\ buffer.tag = "ok"
                      THEN cacheSet(cache, cacheKey("readFile", normalizedPath), buffer)
                      ELSE cache
    /\ UNCHANGED <<server, content, others, tree, inflight, resp, log, answers, trace, call, faults>>

CachedReadDirCall ==
    /\ Running("cached.readDir", "start")
    /\ LET normalizedPath == normalizePath(Top.path)
           key == cacheKey("readDir", normalizedPath)
       IN IF caching /\ Top.useCache /\ cacheHas(cache, key)
          THEN Return(cache[key])
          ELSE Invoke(RequestFrame("PROPFIND", normalizedPath,
                                   IF Top.recursive = "true" THEN "infinity" ELSE "1"),
                      "resp")
    /\ UNCHANGED <<server, content, others, cache, tree, inflight, resp, log, answers, trace, call, faults>>

CachedReadDirOutcome(r, normalizedPath, includeHidden) ==
    IF r.tag = "err" THEN r
    ELSE IF r.status >= 400 THEN createErrorFromStatusCode(r.status, normalizedPath)
    ELSE OkFiles(SelectSeq(parseWebDAVXml(r.data, normalizedPath),
                           LAMBDA file : /\ file.path # normalizedPath
                                         /\ includeHidden \/ ~startsWith(file.name, ".")))

CachedReadDirResp ==
    /\ Resumed("cached.readDir", "resp")
    /\ LET normalizedPath == normalizePath(Top.path)
           listing == CachedReadDirOutcome(ret, normalizedPath, Top.hidden)
       IN /\ Return(listing)
          /\ cache' = IF caching /\ listing.tag = "ok"
                      THEN cacheSet(cache, cacheKey("readDir", normalizedPath), listing)
                      ELSE cache
    /\ UNCHANGED <<server, content, others, tree, inflight, resp, log, answers, trace, call, faults>>

----------------------------------------------------------------------------
(* WebDAVFS with the optional cache: writeFile, deleteFile, mkdir, rmdir *)

\* the entries writeFile and deleteFile clear once the server has accepted
\* the request: without the entry of the file's bytes
ClearFileKeepsContent(c, normalizedPath) ==
    cacheDelete(cacheDelete(c, cacheKey("stat", normalizedPath)),
                cacheKey("readDir", getDirFromPath(normalizedPath)))

ClearFile(c, normalizedPath) ==
    cacheDelete(cacheDelete(cacheDelete(c, cacheKey("readFile", normalizedPath)),
                            cacheKey("stat", normalizedPath)),
                cacheKey("readDir", getDirFromPath(normalizedPath)))

\* the entries mkdir and rmdir clear
ClearDir(c, normalizedPath) ==
    cacheDelete(cacheDelete(c, cacheKey("stat", normalizedPath)),
                cacheKey("readDir", getDirFromPath(normalizedPath)))

\* what the mutating operations make of the response to their request
CachedOutcome(r, normalizedPath) ==
    IF r.tag = "err" THEN r
    ELSE IF r.status >= 400 THEN createErrorFromStatusCode(r.status, normalizedPath)
    ELSE OkResponse(r.status, <<>>)

CachedWriteFileCall ==
    /\ Running("cached.writeFile", "start")
    /\ LET normalizedPath == normalizePath(Top.path)
       IN IF Top.overwrite = "false"
          THEN Invoke(Frame("cached.exists", normalizedPath), "exists")
          ELSE Invoke(Put(normalizedPath, Top.data), "resp")
    /\ UNCHANGED <<server, content, others, cache, tree, inflight, resp, log, answers, trace, call, faults>>

CachedWriteFileExists ==
    /\ Resumed("cached.writeFile", "exists")
    /\ LET normalizedPath == normalizePath(Top.path)
       IN IF ret.tag = "err" THEN Return(ret)
          ELSE IF ret.flag THEN Return(FileExistsError(normalizedPath))
          ELSE Invoke(Put(normalizedPath, Top.data), "resp")
    /\ UNCHANGED <<server, content, others, cache, tree, inflight, resp, log, answers, trace, call, faults>>

CachedWriteFileResp ==
    /\ Resumed("cached.writeFile", "resp")
    /\ LET normalizedPath == normalizePath(Top.path)
           response == CachedOutcome(ret, normalizedPath)
       IN /\ Return(response)
          /\ cache' = IF caching /\ response.tag = "ok"
                      THEN ClearFile(cache, normalizedPath)
                      ELSE cache
    /\ UNCHANGED <<server, content, others, tree, inflight, resp, log, answers, trace, call, faults>>

CachedDeleteFileCall ==
    /\ Running("cached.deleteFile", "start")
    /\ Invoke(Frame("cached.stat", normalizePath(Top.path)), "stat")
    /\ UNCHANGED <<server, content, others, cache, tree, inflight, resp, log, answers, trace, call, faults>>

CachedDeleteFileStat ==
    /\ Resumed("cached.deleteFile", "stat")
    /\ LET normalizedPath == normalizePath(Top.path)
       IN IF ret.tag = "err" THEN Return(ret)
          ELSE IF ret.files[1].isDirectory THEN Return(InvalidArgumentError(normalizedPath))
          ELSE Invoke(RequestFrame("DELETE", normalizedPath, ""), "resp")
    /\ UNCHANGED <<server, content, others, cache, tree, inflight, resp, log, answers, trace, call, faults>>

CachedDeleteFileResp ==
    /\ Resumed("cached.deleteFile", "resp")
    /\ LET normalizedPath == normalizePath(Top.path)
           response == CachedOutcome(ret, normalizedPath)
       IN /\ Return(response)
          /\ cache' = IF caching /\ response.tag = "ok"
                      THEN ClearFile(cache, normalizedPath)
                      ELSE cache
    /\ UNCHANGED <<server, content, others, tree, inflight, resp, log, answers, trace, call, faults>>

CachedMkdirCall ==
    /\ Running("cached.mkdir", "start")
    /\ Invoke(Frame("cached.stat", normalizePath(Top.path)), "stat")
    /\ UNCHANGED <<server, content, others, cache, tree, inflight, resp, log, answers, trace, call, faults>>

\* the parent mkdir looks at before creating normalizedPath, "" when none
CachedMkdirParentDir(normalizedPath, recursive) ==
    LET parentDir == getDirFromPath(normalizedPath)
    IN IF recursive # "false" /\ parentDir # <<"/">> /\ parentDir # normalizedPath
       THEN parentDir ELSE <<>>

\* the check whether the directory exists already
CachedMkdirStat ==
    /\ Resumed("cached.mkdir", "stat")
    /\ LET normalizedPath == normalizePath(Top.path)
           parentDir == CachedMkdirParentDir(normalizedPath, Top.recursive)
       IN IF ret.tag = "ok"
          THEN (IF ret.files[1].isDirectory THEN Return(Ok)
                ELSE Return(FileExistsError(normalizedPath)))
          ELSE IF ret.kind # "NotFoundError" THEN Return(ret)
          ELSE IF parentDir # <<>> THEN Invoke(Frame("cached.stat", parentDir), "parentStat")
          ELSE Invoke(RequestFrame("MKCOL", normalizedPath, ""), "mkcol")
    /\ UNCHANGED <<server, content, others, cache, tree, inflight, resp, log, answers, trace, call, faults>>

CachedMkdirParentStat ==
    /\ Resumed("cached.mkdir", "parentStat")
    /\ LET normalizedPath == normalizePath(Top.path)
           parentDir == getDirFromPath(normalizedPath)
       IN IF ret.tag = "ok" THEN Invoke(RequestFrame("MKCOL", normalizedPath, ""), "mkcol")
          ELSE IF ret.kind = "NotFoundError"
          THEN Invoke([Frame("cached.mkdir", parentDir) EXCEPT !.recursive = Top.recursive],
                      "parent")
          ELSE Return(ret)
    /\ UNCHANGED <<server, content, others, cache, tree, inflight, resp, log, answers, trace, call, faults>>

CachedMkdirParent ==
    /\ Resumed("cached.mkdir", "parent")
    /\ IF ret.tag = "ok"
       THEN Invoke(RequestFrame("MKCOL", normalizePath(Top.path), ""), "mkcol")
       ELSE Return(ret)
    /\ UNCHANGED <<server, content, others, cache, tree, inflight, resp, log, answers, trace, call, faults>>

CachedMkdirResp ==
    /\ Resumed("cached.mkdir", "mkcol")
    /\ LET normalizedPath == normalizePath(Top.path)
           response == CachedOutcome(ret, normalizedPath)
       IN /\ Return(response)
          /\ cache' = IF caching /\ response.tag = "ok"
                      THEN ClearDir(cache, normalizedPath)
                      ELSE cache
    /\ UNCHANGED <<server, content, others, tree, inflight, resp, log, answers, trace, call, faults>>

CachedRmdirCall ==
    /\ Running("cached.rmdir", "start")
    /\ Invoke(Frame("cached.stat", normalizePath(Top.path)), "stat")
    /\ UNCHANGED <<server, content, others, cache, tree, inflight, resp, log, answers, trace, call, faults>>

CachedRmdirStat ==
    /\ Resumed("cached.rmdir", "stat")
    /\ LET normalizedPath == normalizePath(Top.path)
       IN IF ret.tag = "err" THEN Return(ret)
          ELSE IF ~ret.files[1].isDirectory THEN Return(InvalidArgumentError(normalizedPath))
          ELSE Invoke([Frame("cached.readDir", normalizedPath) EXCEPT
                          !.recursive = IF Top.recursive = "true" THEN "false" ELSE "unset"],
                      "children")
    /\ UNCHANGED <<server, content, others, cache, tree, inflight, resp, log, answers, trace, call, faults>>

\* rmdir or deleteFile for the i-th child, the DELETE of the directory after
\* the last one
CachedRmdirStep(caller, i) ==
    LET normalizedPath == normalizePath(caller.path)
        child == caller.files[i]
        path == normalizedPath \o <<"/">> \o child.name
    IN IF i > Len(caller.files)
       THEN InvokeFrom(caller, RequestFrame("DELETE", normalizedPath, ""), "resp")
       ELSE InvokeFrom([caller EXCEPT !.i = i],
                       IF child.isDirectory
                       THEN [Frame("cached.rmdir", path) EXCEPT !.recursive = "true"]
                       ELSE Frame("cached.deleteFile", path),
                       "child")

CachedRmdirChildren ==
    /\ Resumed("cached.rmdir", "children")
    /\ LET normalizedPath == normalizePath(Top.path)
       IN IF ret.tag = "err" THEN Return(ret)
          ELSE IF Top.recursive = "true"
          THEN CachedRmdirStep([Top EXCEPT !.files = ret.files], 1)
          ELSE IF Len(ret.files) > 0 THEN Return(Err("WebDAVError", NoStatus, normalizedPath))
          ELSE Invoke(RequestFrame("DELETE", normalizedPath, ""), "resp")
    /\ UNCHANGED <<server, content, others, cache, tree, inflight, resp, log, answers, trace, call, faults>>

CachedRmdirChild ==
    /\ Resumed("cached.rmdir", "child")
    /\ IF ret.tag = "err" THEN Return(ret)
       ELSE CachedRmdirStep(Top, Top.i + 1)
    /\ UNCHANGED <<server, content, others, cache, tree, inflight, resp, log, answers, trace, call, faults>>

CachedRmdirResp ==
    /\ Resumed("cached.rmdir", "resp")
    /\ LET normalizedPath == normalizePath(Top.path)
           response == CachedOutcome(ret, normalizedPath)
       IN /\ Return(response)
          /\ cache' = IF caching /\ response.tag = "ok"
                      THEN ClearDir(cache, normalizedPath)
                      ELSE cache
    /\ UNCHANGED <<server, content, others, tree, inflight, resp, log, answers, trace, call, faults>>

----------------------------------------------------------------------------
(* WebDAVFS with the optional cache: copy, move *)

\* copy and move after stat(source): probe the destination or send the request
CachedTransferStat(op, method) ==
    /\ Resumed(op, "stat")
    /\ IF ret.tag = "err" THEN Return(ret)
       ELSE IF Top.overwrite = "false"
       THEN Invoke(Frame("cached.exists", normalizePath(Top.dest)), "exists")
       ELSE Invoke(Transfer(method, normalizePath(Top.path), normalizePath(Top.dest),
                            Top.overwrite), "resp")

CachedTransferExists(op, method) ==
    /\ Resumed(op, "exists")
    /\ IF ret.tag = "err" THEN Return(ret)
       ELSE IF ret.flag THEN Return(FileExistsError(normalizePath(Top.dest)))
       ELSE Invoke(Transfer(method, normalizePath(Top.path), normalizePath(Top.dest),
                            Top.overwrite), "resp")

\* the entries copy clears
ClearCopy(c, normalizedSource, normalizedDestination) ==
    ClearFile(c, normalizedDestination)

\* move clearing the entries of the source alone
ClearMoveSourceOnly(c, normalizedSource, normalizedDestination) ==
    ClearFile(c, normalizedSource)

\* the entries move clears
ClearMove(c, normalizedSource, normalizedDestination) ==
    ClearFile(ClearFile(c, normalizedSource), normalizedDestination)

CachedCopyCall ==
    /\ Running("cached.copy", "start")
    /\ Invoke(Frame("cached.stat", normalizePath(Top.path)), "stat")
    /\ UNCHANGED <<server, content, others, cache, tree, inflight, resp, log, answers, trace, call, faults>>

CachedCopyStat ==
    /\ CachedTransferStat("cached.copy", "COPY")
    /\ UNCHANGED <<server, content, others, cache, tree, inflight, resp, log, answers, trace, call, faults>>

CachedCopyExists ==
    /\ CachedTransferExists("cached.copy", "COPY")
    /\ UNCHANGED <<server, content, others, cache, tree, inflight, resp, log, answers, trace, call, faults>>

CachedCopyResp ==
    /\ Resumed("cached.copy", "resp")
    /\ LET response == CachedOutcome(ret, normalizePath(Top.path))
       IN /\ Return(response)
          /\ cache' = IF caching /\ response.tag = "ok"
                      THEN ClearCopy(cache, normalizePath(Top.path), normalizePath(Top.dest))
                      ELSE cache
    /\ UNCHANGED <<server, content, others, tree, inflight, resp, log, answers, trace, call, faults>>

CachedMoveCall ==
    /\ Running("cached.move", "start")
    /\ Invoke(Frame("cached.stat", normalizePath(Top.path)), "stat")
    /\ UNCHANGED <<server, content, others, cache, tree, inflight, resp, log, answers, trace, call, faults>>

CachedMoveStat ==
    /\ CachedTransferStat("cached.move", "MOVE")
    /\ UNCHANGED <<server, content, others, cache, tree, inflight, resp, log, answers, trace, call, faults>>

CachedMoveExists ==
    /\ CachedTransferExists("cached.move", "MOVE")
    /\ UNCHANGED <<server, content, others, cache, tree, inflight, resp, log, answers, trace, call, faults>>

CachedMoveResp ==
    /\ Resumed("cached.move", "resp")
    /\ LET response == CachedOutcome(ret, normalizePath(Top.path))
       IN /\ Return(response)
          /\ cache' = IF caching /\ response.tag = "ok"
                      THEN ClearMove(cache, normalizePath(Top.path), normalizePath(Top.dest))
                      ELSE cache
    /\ UNCHANGED <<server, content, others, tree, inflight, resp, log, answers, trace, call, faults>>

----------------------------------------------------------------------------
(* Request headers *)

\* A header object is the sequence of its <<name, value>> entries in insertion
\* order; names are compared as JavaScript compares property keys, letter case
\* included.

NoOptions ==
    [class |-> "", username |-> "", password |-> "", token |-> "",
     headers |-> <<>>]

has(o, name) == \E k \in 1..Len(o) : o[k][1] = name

\* o[name] = value
assign(o, name, value) ==
    IF has(o, name)
    THEN [k \in 1..Len(o) |-> IF o[k][1] = name THEN <<name, value>> ELSE o[k]]
    ELSE Append(o, <<name, value>>)

\* { ...a, ...b }
RECURSIVE spread(_, _)
spread(a, b) ==
    IF b = <<>> THEN a ELSE spread(assign(a, b[1][1], b[1][2]), Tail(b))

toLowerCase(name) ==
    IF name \in {"Authorization", "authorization"} THEN "authorization" ELSE name

\* the values fetch sends under a header name: it matches the names of the
\* entries without regard to letter case and sends every match
headerValues(headers, name) ==
    LET entries == SelectSeq(headers, LAMBDA e : toLowerCase(e[1]) = name)
    IN [k \in 1..Len(entries) |-> entries[k][2]]

createBasicAuthHeader(username, password) == <<"Basic", username, password>>
Bearer(token) == <<"Bearer", token>>

\* WebDAVFS: this.auth is set when both a username and a password are given
auth(o) == o.username # "" /\ o.password # ""

createHeaders(o, customHeaders) ==
    LET headers == spread(spread(<<>>, o.headers), customHeaders)
    IN IF auth(o)
       THEN assign(headers, "Authorization",
                   createBasicAuthHeader(o.username, o.password))
       ELSE headers

\* WebDAVFileSystem: the headers its constructor keeps
defaultHeaders(o) ==
    LET headers == spread(<<<<"Content-Type", <<"application/octet-stream">>>>>>,
                          o.headers)
    IN IF o.token # "" THEN assign(headers, "Authorization", Bearer(o.token))
       ELSE IF o.username # "" /\ o.password # ""
       THEN assign(headers, "Authorization",
                   createBasicAuthHeader(o.username, o.password))
       ELSE headers

\* WebDAVFileSystem: the headers sendRequest hands to fetch
sendRequestHeaders(o, perCall) == spread(defaultHeaders(o), perCall)

----------------------------------------------------------------------------
(* Public calls and initial states *)

A == <<"a">>
B == <<"b">>
C == <<"c">>
D == <<"d">>
H == <<".", "h">>

\* the trees the server starts with: which resources exist, TRUE for a collection
InitTrees ==
    { [q \in {<<A>>} |-> TRUE],
      [q \in {<<A>>} |-> FALSE],
      [q \in {<<A>>, <<A, H>>} |-> q = <<A>>],
      [q \in {<<A>>, <<A, B>>, <<A, B, C>>} |-> q # <<A, B, C>>],
      [q \in {<<A>>, <<A, B>>, <<A, C>>, <<A, C, B>>} |-> q \in {<<A>>, <<A, C>>}],
      [q \in {<<A>>, <<A, B>>, <<A, C>>, <<A, D>>} |-> q = <<A>>] }

\* the paths the user calls the adapter with
InputPaths ==
    { <<"/">>, <<"/", "a">>, <<"/", "a", "/", "b">>,
      <<"/", "a", "/", "b", "/", "c">> }

PublicOps == {"stat", "exists", "readDir", "mkdir", "rm", "rmdir"}

\* the options each public operation reads
RecursiveOptions(op) ==
    IF op = "mkdir" THEN {"unset", "true", "false"}
    ELSE IF op \in {"readDir", "rm", "rmdir"} THEN {"unset", "true"}
    ELSE {"unset"}
TakesForce(op) == op \in {"rm", "rmdir"}
TakesHidden(op) == op = "readDir"

NoCall == [op |-> "", path |-> <<>>, recursive |-> "unset", force |-> FALSE,
           hidden |-> FALSE, tree |-> <<>>, faults |-> 0]

\* the user calls a public operation once the previous call has settled
Call ==
    /\ stack = <<>>
    /\ \E op \in PublicOps, path \in InputPaths,
          recursive \in {"unset", "true", "false"}, force, hidden \in BOOLEAN :
          /\ recursive \in RecursiveOptions(op)
          /\ ~force \/ TakesForce(op)
          /\ ~hidden \/ TakesHidden(op)
          /\ stack' = <<[Frame(op, path) EXCEPT !.recursive = recursive,
                                                !.force = force, !.hidden = hidden]>>
          /\ call' = [op |-> op, path |-> path, recursive |-> recursive,
                      force |-> force, hidden |-> hidden, tree |-> tree,
                      faults |-> faults]
    /\ ret' = NoRet
    /\ result' = NoRet
    /\ log' = <<>>
    /\ answers' = <<>>
    /\ trace' = <<>>
    /\ UNCHANGED <<server, content, others, cache, tree, inflight, resp, faults>>

Init ==
    /\ prefix \in {<<>>, <<"/", "w">>}
    /\ trailing \in BOOLEAN
    /\ listRev \in BOOLEAN
    /\ tree \in InitTrees
    /\ content = [q \in Files(tree) |-> <<>>]
    /\ caching = FALSE
    /\ options = NoOptions
    /\ cache = <<>>
    /\ others = <<>>
    /\ stack = <<>>
    /\ ret = NoRet
    /\ inflight = NoReq
    /\ resp = NoResp
    /\ log = <<>>
    /\ answers = <<>>
    /\ trace = <<>>
    /\ call = NoCall
    /\ result = NoRet
    /\ faults = 0

Next ==
    \/ Call
    \/ RequestSend
    \/ ServerRespond
    \/ ServerFault
    \/ FetchReject
    \/ RequestSettle
    \/ StatCall
    \/ StatResp
    \/ ExistsCall
    \/ ExistsResp
    \/ ReadDirCall
    \/ ReadDirResp
    \/ DeleteCall
    \/ DeleteResp
    \/ MkdirCall
    \/ MkdirStat
    \/ MkdirParentStat
    \/ MkdirParent
    \/ MkdirMkcol
    \/ RmCall
    \/ RmStat
    \/ RmList
    \/ RmChild
    \/ RmCheck
    \/ RmDelete
    \/ RmdirCall
    \/ RmdirReturn

Spec == Init /\ [][Next]_vars

----------------------------------------------------------------------------
(* Files: the adapter next to another client of the same server *)

\* the trees and bytes the server starts with
FileTrees ==
    { [q \in {<<A>>} |-> TRUE],
      [q \in {<<A>>} |-> FALSE],
      [q \in {<<A>>, <<C>>} |-> FALSE] }

InitContents == { <<"61">>, <<"FF">> }

FilePaths == { <<"/">>, <<"/", "a">>, <<"/", "c">> }

FileOps == {"readFile", "writeFile", "deleteFile", "unlink", "copy", "move"}

\* the data writeFile is called with
InputData == { Str(<<"e9">>), Buf(<<"FF">>) }

\* what the other client writes
OtherBody == <<"BF">>

\* the options each file operation reads
OverwriteOptions(op) ==
    IF op = "writeFile" THEN {"unset", "false"}
    ELSE IF op \in {"copy", "move"} THEN {"true", "false"}
    ELSE {"unset"}
Encodings(op) == IF op = "readFile" THEN {"", "utf8", "latin1"} ELSE {""}
Destinations(op) == IF op \in {"copy", "move"} THEN FilePaths ELSE {<<>>}
DataOf(op) == IF op = "writeFile" THEN InputData ELSE {<<>>}

CallFiles ==
    /\ stack = <<>>
    /\ \E op \in FileOps, path \in FilePaths :
       \E dest \in Destinations(op), overwrite \in OverwriteOptions(op),
          encoding \in Encodings(op), data \in DataOf(op) :
          /\ stack' = <<[Frame(op, path) EXCEPT !.dest = dest, !.overwrite = overwrite,
                                                !.encoding = encoding, !.data = data]>>
          /\ call' = [op |-> op, path |-> path, dest |-> dest, overwrite |-> overwrite,
                      encoding |-> encoding, data |-> data, tree |-> tree,
                      content |-> content, faults |-> faults]
    /\ ret' = NoRet
    /\ result' = NoRet
    /\ log' = <<>>
    /\ answers' = <<>>
    /\ others' = <<>>
    /\ UNCHANGED <<server, content, cache, tree, inflight, resp, trace, faults>>

\* another client writes the file the adapter's call is about; its request
\* reaches the server between two requests of the adapter
OtherWrite ==
    /\ Running("request", "start") \/ Running("sendRequest", "start")
    /\ Len(others) < MaxWrites
    /\ LET r == Resource(joinUrl(baseUrl, normalizePath(call.path)), prefix)
       IN /\ r # <<>>
          /\ ~IsDir(tree, r)
          /\ IsDir(tree, Parent(r))
          /\ tree' = [q \in DOMAIN tree \cup {r} |-> IF q = r THEN FALSE ELSE tree[q]]
          /\ content' = [q \in DOMAIN content \cup {r} |->
                            IF q = r THEN OtherBody ELSE content[q]]
          /\ others' = Append(others, [path |-> r, created |-> ~Exists(tree, r),
                                       sent |-> Len(log), settled |-> Len(answers)])
    /\ UNCHANGED <<server, cache, stack, ret, inflight, resp, log, answers, trace, call, result, faults>>

InitFiles ==
    /\ prefix \in {<<>>, <<"/", "w">>}
    /\ trailing \in BOOLEAN
    /\ listRev = FALSE
    /\ tree \in FileTrees
    /\ content \in [Files(tree) -> InitContents]
    /\ caching = FALSE
    /\ options = NoOptions
    /\ cache = <<>>
    /\ others = <<>>
    /\ stack = <<>>
    /\ ret = NoRet
    /\ inflight = NoReq
    /\ resp = NoResp
    /\ log = <<>>
    /\ answers = <<>>
    /\ trace = <<>>
    /\ call = NoCall
    /\ result = NoRet
    /\ faults = 0

NextFiles ==
    \/ CallFiles
    \/ OtherWrite
    \/ RequestSend
    \/ ServerRespond
    \/ ServerFault
    \/ FetchReject
    \/ RequestSettle
    \/ StatCall
    \/ StatResp
    \/ ExistsCall
    \/ ExistsResp
    \/ ReadFileCall
    \/ ReadFileResp
    \/ WriteFileCall
    \/ WriteFileExists
    \/ WriteFileResp
    \/ DeleteFileCall
    \/ DeleteFileStat
    \/ DeleteFileResp
    \/ UnlinkCall
    \/ UnlinkReturn
    \/ CopyCall
    \/ CopyStat
    \/ CopyExists
    \/ CopyResp
    \/ MoveCall
    \/ MoveStat
    \/ MoveExists
    \/ MoveResp

SpecFiles == InitFiles /\ [][NextFiles]_vars

----------------------------------------------------------------------------
(* Copy a file, then move the copy *)

\* what the caller has seen so far
Seen(x) == Append(Top.files, x)

\* await f after the caller has noted x, or give up with the error in ret
ThenInvoke(x, f, pc) ==
    IF ret.tag = "err" THEN Return(ret)
    ELSE InvokeFrom([Top EXCEPT !.files = Seen(x)], f, pc)

CopyThenMoveCopy ==
    /\ Running("copyThenMove", "start")
    /\ Invoke([Frame("copy", Top.path) EXCEPT !.dest = Top.dest, !.overwrite = "true"],
              "copy")
    /\ UNCHANGED <<server, content, others, cache, tree, inflight, resp, log, answers, trace, call, faults>>

CopyThenMoveReadSource ==
    /\ Resumed("copyThenMove", "copy")
    /\ ThenInvoke(ret.status, Frame("readFile", Top.path), "readSource")
    /\ UNCHANGED <<server, content, others, cache, tree, inflight, resp, log, answers, trace, call, faults>>

CopyThenMoveReadCopy ==
    /\ Resumed("copyThenMove", "readSource")
    /\ ThenInvoke(ret.data, Frame("readFile", Top.dest), "readCopy")
    /\ UNCHANGED <<server, content, others, cache, tree, inflight, resp, log, answers, trace, call, faults>>

CopyThenMoveMove ==
    /\ Resumed("copyThenMove", "readCopy")
    /\ ThenInvoke(ret.data, [Frame("move", Top.dest) EXCEPT !.dest = Top.moved,
                                                           !.overwrite = "true"], "move")
    /\ UNCHANGED <<server, content, others, cache, tree, inflight, resp, log, answers, trace, call, faults>>

CopyThenMoveExists ==
    /\ Resumed("copyThenMove", "move")
    /\ ThenInvoke(ret.status, Frame("exists", Top.dest), "exists")
    /\ UNCHANGED <<server, content, others, cache, tree, inflight, resp, log, answers, trace, call, faults>>

CopyThenMoveReadMoved ==
    /\ Resumed("copyThenMove", "exists")
    /\ ThenInvoke(ret.flag, Frame("readFile", Top.moved), "readMoved")
    /\ UNCHANGED <<server, content, others, cache, tree, inflight, resp, log, answers, trace, call, faults>>

CopyThenMoveReadAgain ==
    /\ Resumed("copyThenMove", "readMoved")
    /\ ThenInvoke(ret.data, Frame("readFile", Top.path), "readAgain")
    /\ UNCHANGED <<server, content, others, cache, tree, inflight, resp, log, answers, trace, call, faults>>

\* the caller hands back what it has seen: the status of copy, the bytes of
\* the source and of the copy, the status of move, whether the copy still
\* exists, the bytes of the moved file and of the source
CopyThenMoveReturn ==
    /\ Resumed("copyThenMove", "readAgain")
    /\ Return(IF ret.tag = "err" THEN ret ELSE OkFiles(Seen(ret.data)))
    /\ UNCHANGED <<server, content, others, cache, tree, inflight, resp, log, answers, trace, call, faults>>

CopyTrees ==
    { [q \in {<<A>>} |-> FALSE],
      [q \in {<<A>>, <<C>>} |-> FALSE],
      [q \in {<<A>>, <<D>>} |-> q = <<D>>] }

SourcePaths == { <<"/", "a">> }
CopyPaths == { <<"/", "c">>, <<"/", "a">> }
MovedPaths == { <<"/", "d">>, <<"/", "c">>, <<"/", "a">> }

CallCopyThenMove ==
    /\ stack = <<>>
    /\ \E path \in SourcePaths, dest \in CopyPaths, moved \in MovedPaths :
          /\ stack' = <<[Frame("copyThenMove", path) EXCEPT !.dest = dest,
                                                            !.moved = moved]>>
          /\ call' = [op |-> "copyThenMove", path |-> path, dest |-> dest,
                      moved |-> moved, tree |-> tree, content |-> content,
                      faults |-> faults]
    /\ ret' = NoRet
    /\ result' = NoRet
    /\ log' = <<>>
    /\ answers' = <<>>
    /\ others' = <<>>
    /\ UNCHANGED <<server, content, cache, tree, inflight, resp, trace, faults>>

InitCopyThenMove ==
    /\ prefix \in {<<>>, <<"/", "w">>}
    /\ trailing \in BOOLEAN
    /\ listRev = FALSE
    /\ tree \in CopyTrees
    /\ content \in [Files(tree) -> InitContents]
    /\ caching = FALSE
    /\ options = NoOptions
    /\ cache = <<>>
    /\ others = <<>>
    /\ stack = <<>>
    /\ ret = NoRet
    /\ inflight = NoReq
    /\ resp = NoResp
    /\ log = <<>>
    /\ answers = <<>>
    /\ trace = <<>>
    /\ call = NoCall
    /\ result = NoRet
    /\ faults = 0

NextCopyThenMove ==
    \/ CallCopyThenMove
    \/ CopyThenMoveCopy
    \/ CopyThenMoveReadSource
    \/ CopyThenMoveReadCopy
    \/ CopyThenMoveMove
    \/ CopyThenMoveExists
    \/ CopyThenMoveReadMoved
    \/ CopyThenMoveReadAgain
    \/ CopyThenMoveReturn
    \/ RequestSend
    \/ ServerRespond
    \/ ServerFault
    \/ FetchReject
    \/ RequestSettle
    \/ StatCall
    \/ StatResp
    \/ ExistsCall
    \/ ExistsResp
    \/ ReadFileCall
    \/ ReadFileResp
    \/ CopyCall
    \/ CopyStat
    \/ CopyResp
    \/ MoveCall
    \/ MoveStat
    \/ MoveResp

SpecCopyThenMove == InitCopyThenMove /\ [][NextCopyThenMove]_vars

----------------------------------------------------------------------------
(* WebDAVFileSystem.appendFile next to another client *)

AppendTrees ==
    { [q \in {<<A>>} |-> FALSE],
      [q \in {<<C>>} |-> FALSE],
      [q \in {<<A>>} |-> TRUE] }

AppendContents == { <<>>, <<"61">>, <<"C3", "A9">>, <<"FF">>, <<"EF", "BB", "BF">> }

AppendPaths == { <<"/", "a">>, <<"a">>, <<"/", "a", "/">> }

AppendData == { Str(<<"e9">>), Str(<<>>), ArrayBuf(<<"FF">>) }

\* the file the call is about is short enough to be appended to
ShortEnough(path) ==
    LET r == Resource(buildUrl(path), prefix)
    IN r \in Files(tree) => Len(content[r]) <= MaxBytes

CallAppend ==
    /\ stack = <<>>
    /\ \E op \in {"appendFile", "fs.writeFile"}, path \in AppendPaths,
          data \in AppendData :
       \E overwrite \in (IF op = "fs.writeFile" THEN {"unset", "false"} ELSE {"unset"}) :
          /\ op = "appendFile" => ShortEnough(path)
          /\ stack' = <<[Frame(op, path) EXCEPT !.data = data, !.overwrite = overwrite]>>
          /\ call' = [op |-> op, path |-> path, overwrite |-> overwrite, data |-> data,
                      tree |-> tree, content |-> content, faults |-> faults]
    /\ ret' = NoRet
    /\ result' = NoRet
    /\ log' = <<>>
    /\ answers' = <<>>
    /\ others' = <<>>
    /\ UNCHANGED <<server, content, cache, tree, inflight, resp, trace, faults>>

InitAppend ==
    /\ prefix \in {<<>>, <<"/", "w">>}
    /\ trailing = FALSE
    /\ listRev = FALSE
    /\ tree \in AppendTrees
    /\ content \in [Files(tree) -> AppendContents]
    /\ caching = FALSE
    /\ options = NoOptions
    /\ cache = <<>>
    /\ others = <<>>
    /\ stack = <<>>
    /\ ret = NoRet
    /\ inflight = NoReq
    /\ resp = NoResp
    /\ log = <<>>
    /\ answers = <<>>
    /\ trace = <<>>
    /\ call = NoCall
    /\ result = NoRet
    /\ faults = 0

NextAppend ==
    \/ CallAppend
    \/ OtherWrite
    \/ SendRequestSend
    \/ ServerRespond
    \/ ServerFault
    \/ FetchReject
    \/ SendRequestSettle
    \/ FsExistsCall
    \/ FsExistsResp
    \/ FsReadFileCall
    \/ FsReadFileResp
    \/ FsWriteFileCall
    \/ FsWriteFileExists
    \/ FsWriteFileResp
    \/ AppendFileCall
    \/ AppendFileExists
    \/ AppendFileRead
    \/ AppendFileWrite

SpecAppend == InitAppend /\ [][NextAppend]_vars

----------------------------------------------------------------------------
(* Calls of the adapter with the optional cache, one after the other *)

\* the server starts with a directory that holds a file, next to a file
CachedTrees == { [q \in {<<A>>, <<A, B>>, <<C>>} |-> q = <<A>>] }

CachedOps ==
    {"cached.stat", "cached.readFile", "cached.readDir", "cached.writeFile",
     "cached.deleteFile", "cached.mkdir", "cached.rmdir", "cached.copy",
     "cached.move"}

\* the paths each operation is called with
CachedPaths(op) ==
    IF op \in {"cached.readFile", "cached.writeFile", "cached.deleteFile"}
    THEN { <<"/", "a", "/", "b">>, <<"/", "c">> }
    ELSE IF op \in {"cached.readDir", "cached.rmdir"} THEN { <<"/", "a">> }
    ELSE IF op = "cached.mkdir" THEN { <<"/", "a">>, <<"/", "a", "/", "b">> }
    ELSE { <<"/", "a">>, <<"/", "c">> }

\* the options each operation reads
CachedOverwrite(op) ==
    IF op = "cached.writeFile" THEN {"unset", "false"}
    ELSE IF op \in {"cached.copy", "cached.move"} THEN {"true", "false"}
    ELSE {"unset"}
CachedRecursive(op) ==
    IF op = "cached.mkdir" THEN {"unset", "false"}
    ELSE IF op = "cached.rmdir" THEN {"false", "true"}
    ELSE {"unset"}
CachedEncodings(op) == IF op = "cached.readFile" THEN {"", "utf8"} ELSE {""}
CachedUseCache(op) == IF op = "cached.readFile" THEN BOOLEAN ELSE {TRUE}
CachedDestinations(op, path) ==
    IF op \in {"cached.copy", "cached.move"}
    THEN (IF path = <<"/", "a">> THEN { <<"/", "c">> } ELSE { <<"/", "a", "/", "b">> })
    ELSE {<<>>}
CachedData(op) == IF op = "cached.writeFile" THEN InputData ELSE {<<>>}

NoWrite == [path |-> <<>>, data |-> <<>>, cached |-> <<>>]

\* what the call that has just settled leaves for the next one to be compared
\* with: the path and the data of a writeFile that resolved, and the bytes the
\* cache held for the path when writeFile was called
Written ==
    IF call.op = "cached.writeFile" /\ result.tag = "ok"
    THEN [path |-> call.path, data |-> call.data, cached |-> call.cached]
    ELSE NoWrite

NoLast == [op |-> "", path |-> <<>>, result |-> NoRet, log |-> <<>>]

\* the stat or readDir that has just resolved, for the next call to be compared
\* with: its operation, its path, what it resolved with and the requests it
\* sent
Last ==
    IF call.op \in {"cached.stat", "cached.readDir"} /\ result.tag = "ok"
    THEN [op |-> call.op, path |-> call.path, result |-> result, log |-> log]
    ELSE NoLast

CallCached ==
    /\ stack = <<>>
    /\ call.n < MaxCalls
    /\ \E op \in CachedOps : \E path \in CachedPaths(op) :
       \E dest \in CachedDestinations(op, path), overwrite \in CachedOverwrite(op),
          recursive \in CachedRecursive(op), encoding \in CachedEncodings(op),
          useCache \in CachedUseCache(op), data \in CachedData(op) :
          LET key == cacheKey("readFile", normalizePath(path))
          IN /\ stack' = <<[Frame(op, path) EXCEPT
                               !.dest = dest, !.overwrite = overwrite,
                               !.recursive = recursive, !.encoding = encoding,
                               !.useCache = useCache, !.data = data]>>
             /\ call' = [op |-> op, path |-> path, dest |-> dest,
                         overwrite |-> overwrite, recursive |-> recursive,
                         encoding |-> encoding, useCache |-> useCache,
                         data |-> data, faults |-> faults, n |-> call.n + 1,
                         cached |-> IF cacheHas(cache, key) THEN <<cache[key].data>>
                                    ELSE <<>>,
                         written |-> Written, last |-> Last]
    /\ ret' = NoRet
    /\ result' = NoRet
    /\ log' = <<>>
    /\ answers' = <<>>
    /\ UNCHANGED <<server, content, others, cache, tree, inflight, resp, trace, faults>>

InitCached ==
    /\ prefix \in {<<>>, <<"/", "w">>}
    /\ trailing = FALSE
    /\ listRev = FALSE
    /\ tree \in CachedTrees
    /\ content = [q \in Files(tree) |-> <<"61">>]
    /\ caching \in BOOLEAN
    /\ options = NoOptions
    /\ cache = <<>>
    /\ others = <<>>
    /\ stack = <<>>
    /\ ret = NoRet
    /\ inflight = NoReq
    /\ resp = NoResp
    /\ log = <<>>
    /\ answers = <<>>
    /\ trace = <<>>
    /\ call = [op |-> "", path |-> <<>>, dest |-> <<>>, overwrite |-> "unset",
               recursive |-> "unset", encoding |-> "", useCache |-> TRUE,
               data |-> <<>>, faults |-> 0, n |-> 0, cached |-> <<>>,
               written |-> NoWrite, last |-> NoLast]
    /\ result = NoRet
    /\ faults = 0

NextCached ==
    \/ CallCached
    \/ RequestSend
    \/ ServerRespond
    \/ ServerFault
    \/ FetchReject
    \/ RequestSettle
    \/ CachedStatCall
    \/ CachedStatResp
    \/ CachedExistsCall
    \/ CachedExistsResp
    \/ CachedReadFileCall
    \/ CachedReadFileResp
    \/ CachedReadDirCall
    \/ CachedReadDirResp
    \/ CachedWriteFileCall
    \/ CachedWriteFileExists
    \/ CachedWriteFileResp
    \/ CachedDeleteFileCall
    \/ CachedDeleteFileStat
    \/ CachedDeleteFileResp
    \/ CachedMkdirCall
    \/ CachedMkdirStat
    \/ CachedMkdirParentStat
    \/ CachedMkdirParent
    \/ CachedMkdirResp
    \/ CachedRmdirCall
    \/ CachedRmdirStat
    \/ CachedRmdirChildren
    \/ CachedRmdirChild
    \/ CachedRmdirResp
    \/ CachedCopyCall
    \/ CachedCopyStat
    \/ CachedCopyExists
    \/ CachedCopyResp
    \/ CachedMoveCall
    \/ CachedMoveStat
    \/ CachedMoveExists
    \/ CachedMoveResp

SpecCached == InitCached /\ [][NextCached]_vars

----------------------------------------------------------------------------
(* The adapter against a server that answers any status *)

\* the statuses the server may answer a request with instead of carrying it out
Statuses == {100, 304, 400, 401, 403, 404, 409, 412, 423, 500, 503}

StatusOps ==
    {"stat", "exists", "readDir", "mkdir", "rm", "rmdir", "readFile",
     "writeFile", "deleteFile", "unlink", "copy", "move"}

StatusPaths ==
    { <<"/", "a">>, <<"/", "a", "/", "b">>, <<"/", "c">>, <<"/", "d">>,
      <<"/", "d", "/", "b">> }

StatusRecursive(op) == IF op \in {"rm", "rmdir"} THEN {"unset", "true"} ELSE {"unset"}
StatusOverwrite(op) ==
    IF op = "writeFile" THEN {"unset", "false"}
    ELSE IF op \in {"copy", "move"} THEN {"true", "false"}
    ELSE {"unset"}
StatusDestinations(op) ==
    IF op \in {"copy", "move"} THEN { <<"/", "c">>, <<"/", "d">> } ELSE {<<>>}
StatusData(op) == IF op = "writeFile" THEN { Buf(<<"FF">>) } ELSE {<<>>}

\* the user calls one public operation of a newly constructed adapter
CallStatus ==
    /\ stack = <<>>
    /\ call.op = ""
    /\ \E op \in StatusOps, path \in StatusPaths, force \in BOOLEAN :
       \E recursive \in StatusRecursive(op), overwrite \in StatusOverwrite(op),
          dest \in StatusDestinations(op), data \in StatusData(op) :
          /\ ~force \/ TakesForce(op)
          /\ stack' = <<[Frame(op, path) EXCEPT
                            !.recursive = recursive, !.force = force,
                            !.dest = dest, !.overwrite = overwrite,
                            !.data = data]>>
          /\ call' = [op |-> op, path |-> path, recursive |-> recursive,
                      force |-> force, dest |-> dest, overwrite |-> overwrite,
                      data |-> data, tree |-> tree, faults |-> faults]
    /\ ret' = NoRet
    /\ result' = NoRet
    /\ log' = <<>>
    /\ answers' = <<>>
    /\ UNCHANGED <<server, content, others, cache, tree, inflight, resp, trace, faults>>

\* the server answers the request with a status of its choice and an empty
\* body, and leaves its resources as they are
ServerAnswer ==
    /\ inflight.method # ""
    /\ faults < MaxFaults
    /\ \E st \in Statuses : resp' = [tag |-> "http", status |-> st, data |-> <<>>]
    /\ inflight' = NoReq
    /\ faults' = faults + 1
    /\ UNCHANGED <<server, content, others, cache, tree, stack, ret, log, answers, trace, call, result>>

InitStatus ==
    /\ prefix \in {<<>>, <<"/", "w">>}
    /\ trailing = FALSE
    /\ listRev = FALSE
    /\ tree \in CachedTrees
    /\ content = [q \in Files(tree) |-> <<"61">>]
    /\ caching = FALSE
    /\ options = NoOptions
    /\ cache = <<>>
    /\ others = <<>>
    /\ stack = <<>>
    /\ ret = NoRet
    /\ inflight = NoReq
    /\ resp = NoResp
    /\ log = <<>>
    /\ answers = <<>>
    /\ trace = <<>>
    /\ call = [NoCall EXCEPT !.tree = tree]
    /\ result = NoRet
    /\ faults = 0

NextStatus ==
    \/ CallStatus
    \/ RequestSend
    \/ ServerRespond
    \/ ServerAnswer
    \/ FetchReject
    \/ RequestSettle
    \/ StatCall
    \/ StatResp
    \/ ExistsCall
    \/ ExistsResp
    \/ ReadDirCall
    \/ ReadDirResp
    \/ DeleteCall
    \/ DeleteResp
    \/ MkdirCall
    \/ MkdirStat
    \/ MkdirParentStat
    \/ MkdirParent
    \/ MkdirMkcol
    \/ RmCall
    \/ RmStat
    \/ RmList
    \/ RmChild
    \/ RmCheck
    \/ RmDelete
    \/ RmdirCall
    \/ RmdirReturn
    \/ ReadFileCall
    \/ ReadFileResp
    \/ WriteFileCall
    \/ WriteFileExists
    \/ WriteFileResp
    \/ DeleteFileCall
    \/ DeleteFileStat
    \/ DeleteFileResp
    \/ UnlinkCall
    \/ UnlinkReturn
    \/ CopyCall
    \/ CopyStat
    \/ CopyExists
    \/ CopyResp
    \/ MoveCall
    \/ MoveStat
    \/ MoveExists
    \/ MoveResp

SpecStatus == InitStatus /\ [][NextStatus]_vars

----------------------------------------------------------------------------
(* The headers of the requests of an adapter constructed with credentials *)

\* a credential that is not the adapter's
Foreign == <<"Bearer", "z">>

\* the headers an adapter is constructed with, or a request is made with
HeaderObjects ==
    { <<>>,
      <<<<"Depth", <<"1">>>>>>,
      <<<<"Authorization", Foreign>>>>,
      <<<<"authorization", Foreign>>>> }

OptionsSet ==
    [class : {"WebDAVFS", "WebDAVFileSystem"}, username : {"", "u"},
     password : {"", "p"}, token : {"", "t"}, headers : HeaderObjects]

\* WebDAVFS.request hands a request to fetch, with the headers createHeaders
\* makes of the ones of the constructor and the ones of the call
RequestWithHeaders ==
    /\ options.class = "WebDAVFS"
    /\ Len(log) < MaxRequests
    /\ \E custom \in HeaderObjects :
          log' = Append(log, [method |-> "GET", url |-> baseUrl, depth |-> "",
                              custom |-> custom,
                              headers |-> createHeaders(options, custom)])
    /\ UNCHANGED <<server, content, others, cache, tree, stack, ret, inflight, resp, answers, trace, call, result, faults>>

\* WebDAVFileSystem.sendRequest hands a request to fetch
SendRequestWithHeaders ==
    /\ options.class = "WebDAVFileSystem"
    /\ Len(log) < MaxRequests
    /\ \E custom \in HeaderObjects :
          log' = Append(log, [method |-> "GET", url |-> baseUrl, depth |-> "",
                              custom |-> custom,
                              headers |-> sendRequestHeaders(options, custom)])
    /\ UNCHANGED <<server, content, others, cache, tree, stack, ret, inflight, resp, answers, trace, call, result, faults>>

InitHeaders ==
    /\ prefix = <<>>
    /\ trailing = FALSE
    /\ listRev = FALSE
    /\ tree \in CachedTrees
    /\ content = [q \in Files(tree) |-> <<"61">>]
    /\ caching = FALSE
    /\ options \in OptionsSet
    /\ cache = <<>>
    /\ others = <<>>
    /\ stack = <<>>
    /\ ret = NoRet
    /\ inflight = NoReq
    /\ resp = NoResp
    /\ log = <<>>
    /\ answers = <<>>
    /\ trace = <<>>
    /\ call = NoCall
    /\ result = NoRet
    /\ faults = 0

NextHeaders ==
    \/ RequestWithHeaders
    \/ SendRequestWithHeaders

SpecHeaders == InitHeaders /\ [][NextHeaders]_vars

----------------------------------------------------------------------------
(* WebDAVFileSystem: exists, move and rename *)

RenameOps == {"fs.exists", "fs.move", "rename"}

RenamePaths ==
    { <<"/", "a">>, <<"a">>, <<"/", "a", "/", "b">>, <<"a", "/", "b", "/">>,
      <<"/", "c">>, <<"/", "d">> }

\* the new names of rename, the destinations of move
NewNames == { <<"b">>, <<"d">> }
MoveDestinations == { <<"/", "d">>, <<"/", "a", "/", "d">> }

CallRename ==
    /\ stack = <<>>
    /\ \E op \in RenameOps, path \in RenamePaths, overwrite \in {"unset", "false"} :
       \E dest \in (IF op = "rename" THEN NewNames
                    ELSE IF op = "fs.move" THEN MoveDestinations ELSE {<<>>}) :
          /\ op = "fs.exists" => overwrite = "unset"
          /\ stack' = <<[Frame(op, path) EXCEPT !.dest = dest, !.overwrite = overwrite]>>
          /\ call' = [op |-> op, path |-> path, dest |-> dest, newName |-> dest,
                      overwrite |-> overwrite, tree |-> tree, faults |-> faults]
    /\ ret' = NoRet
    /\ result' = NoRet
    /\ log' = <<>>
    /\ answers' = <<>>
    /\ UNCHANGED <<server, content, others, cache, tree, inflight, resp, trace, faults>>

InitRename ==
    /\ prefix \in {<<>>, <<"/", "w">>}
    /\ trailing = FALSE
    /\ listRev = FALSE
    /\ tree \in CachedTrees
    /\ content = [q \in Files(tree) |-> <<"61">>]
    /\ caching = FALSE
    /\ options = NoOptions
    /\ cache = <<>>
    /\ others = <<>>
    /\ stack = <<>>
    /\ ret = NoRet
    /\ inflight = NoReq
    /\ resp = NoResp
    /\ log = <<>>
    /\ answers = <<>>
    /\ trace = <<>>
    /\ call = [NoCall EXCEPT !.tree = tree]
    /\ result = NoRet
    /\ faults = 0

NextRename ==
    \/ CallRename
    \/ SendRequestSend
    \/ ServerRespond
    \/ ServerFault
    \/ FetchReject
    \/ SendRequestSettle
    \/ FsExistsCall
    \/ FsExistsResp
    \/ FsMoveCall
    \/ FsMoveResp
    \/ RenameCall
    \/ RenameReturn

SpecRename == InitRename /\ [][NextRename]_vars

----------------------------------------------------------------------------
(* The path helpers of utils.ts applied to strings *)

\* the strings of at most MaxPathLen characters of slashes, the mount's
\* name and another name
PathChars == {"/", "w", "a"}
PathStrings == UNION {[1..n -> PathChars] : n \in 0..MaxPathLen}

\* base URLs: no path, the mount /w, the mount written with a trailing slash
Mount == Origin \o <<"/", "w">>
JoinBases == {Origin, Mount, Mount \o <<"/">>}

NoHelperCall == [op |-> "", base |-> <<>>, path |-> <<>>]

\* joinUrl(base, path) is evaluated
JoinUrlApplied ==
    /\ call.op = ""
    /\ call' = [call EXCEPT !.op = "joinUrl"]
    /\ result' = [Ok EXCEPT !.data = joinUrl(call.base, call.path)]
    /\ UNCHANGED <<server, content, others, cache, tree, stack, ret, inflight, resp, log, answers, trace, faults>>

\* normalizePath(path) is evaluated
NormalizePathApplied ==
    /\ call.op = ""
    /\ call' = [call EXCEPT !.op = "normalizePath"]
    /\ result' = [Ok EXCEPT !.data = normalizePath(call.path)]
    /\ UNCHANGED <<server, content, others, cache, tree, stack, ret, inflight, resp, log, answers, trace, faults>>

InitPaths ==
    /\ prefix = <<>>
    /\ trailing = FALSE
    /\ listRev = FALSE
    /\ tree = CHOOSE t \in CachedTrees : TRUE
    /\ content = [q \in Files(tree) |-> <<"61">>]
    /\ caching = FALSE
    /\ options = NoOptions
    /\ cache = <<>>
    /\ others = <<>>
    /\ stack = <<>>
    /\ ret = NoRet
    /\ inflight = NoReq
    /\ resp = NoResp
    /\ log = <<>>
    /\ answers = <<>>
    /\ trace = <<>>
    /\ call \in {[NoHelperCall EXCEPT !.base = b, !.path = p] :
                    b \in JoinBases, p \in PathStrings}
    /\ result = NoRet
    /\ faults = 0

NextPaths ==
    \/ JoinUrlApplied
    \/ NormalizePathApplied

SpecPaths == InitPaths /\ [][NextPaths]_vars

----------------------------------------------------------------------------
(* readDir of the adapter with the optional cache, called with options *)

\* the server holds /a with a hidden file, and a directory with a file
ListingTree ==
    [q \in {<<A>>, <<A, H>>, <<A, B>>, <<A, B, C>>} |-> q \in {<<A>>, <<A, B>>}]

NoListing == [recursive |-> "unset", hidden |-> FALSE, result |-> NoRet]

\* the user calls readDir('/a', options) once the previous call has settled
CallReadDir ==
    /\ stack = <<>>
    /\ call.n < MaxCalls
    /\ \E recursive \in {"unset", "true"}, hidden \in BOOLEAN :
          /\ stack' = <<[Frame("cached.readDir", <<"/", "a">>) EXCEPT
                            !.recursive = recursive, !.hidden = hidden]>>
          /\ call' = [op |-> "cached.readDir", path |-> <<"/", "a">>,
                      recursive |-> recursive, hidden |-> hidden, n |-> call.n + 1,
                      last |-> IF call.n = 0 THEN NoListing
                               ELSE [recursive |-> call.recursive,
                                     hidden |-> call.hidden, result |-> result]]
    /\ ret' = NoRet
    /\ result' = NoRet
    /\ log' = <<>>
    /\ answers' = <<>>
    /\ UNCHANGED <<server, content, others, cache, tree, inflight, resp, trace, faults>>

InitListings ==
    /\ prefix \in {<<>>, <<"/", "w">>}
    /\ trailing \in BOOLEAN
    /\ listRev = FALSE
    /\ tree = ListingTree
    /\ content = [q \in Files(tree) |-> <<"61">>]
    /\ caching \in BOOLEAN
    /\ options = NoOptions
    /\ cache = <<>>
    /\ others = <<>>
    /\ stack = <<>>
    /\ ret = NoRet
    /\ inflight = NoReq
    /\ resp = NoResp
    /\ log = <<>>
    /\ answers = <<>>
    /\ trace = <<>>
    /\ call = [op |-> "", path |-> <<>>, recursive |-> "unset", hidden |-> FALSE,
               n |-> 0, last |-> NoListing]
    /\ result = NoRet
    /\ faults = 0

NextListings ==
    \/ CallReadDir
    \/ RequestSend
    \/ ServerRespond
    \/ RequestSettle
    \/ CachedReadDirCall
    \/ CachedReadDirResp

SpecListings == InitListings /\ [][NextListings]_vars

----------------------------------------------------------------------------
(* request with its timer, against a server that may stall *)

\* request(method, path, {responseType}) from its call to its return.  The
\* frame keeps the locals of request: timeoutId is "none" where the runtime
\* has no AbortController, "armed" once setTimeout was called, "cleared"
\* after clearTimeout and "fired" once the timer has called abort.  The
\* response of the server comes in two parts, the status line with the
\* headers and then the body.
TimedMethods == {"GET", "PUT", "PROPFIND", "DELETE"}
TimedPaths == { <<"/">>, <<"/", "a">>, <<"/", "a", "/", "b">> }
ResponseTypes == {"text", "arraybuffer"}
TimedStatuses == {200, 404}

TimedFrame(method, path, responseType, controller) ==
    [op |-> "request", pc |-> "fetch", method |-> method, path |-> path,
     responseType |-> responseType,
     timeoutId |-> IF controller THEN "armed" ELSE "none"]

\* request is called: it creates the controller, arms the timer and calls
\* fetch
TimedRequestCall ==
    /\ stack = <<>>
    /\ call.op = ""
    /\ \E method \in TimedMethods, path \in TimedPaths,
          responseType \in ResponseTypes, controller \in BOOLEAN :
          /\ stack' = <<TimedFrame(method, path, responseType, controller)>>
          /\ call' = [op |-> "request", method |-> method, path |-> path,
                      responseType |-> responseType, controller |-> controller]
          /\ inflight' = [NoReq EXCEPT !.method = method,
                                       !.url = joinUrl(baseUrl, normalizePath(path))]
          /\ log' = Append(log, [method |-> method,
                                 url |-> joinUrl(baseUrl, normalizePath(path)),
                                 depth |-> ""])
    /\ UNCHANGED <<server, content, others, cache, tree, ret, resp, answers, trace, result, faults>>

\* the server sends the status line and the headers of its response
ServerSendsHeaders ==
    /\ inflight.method # ""
    /\ resp.tag = "none"
    /\ \E status \in TimedStatuses :
          resp' = [tag |-> "headers", status |-> status, data |-> <<>>]
    /\ UNCHANGED <<server, content, others, cache, tree, stack, ret, inflight, log, answers, trace, call, result, faults>>

\* the server sends the body of its response
ServerSendsBody ==
    /\ resp.tag = "headers"
    /\ resp' = [resp EXCEPT !.tag = "complete", !.data = <<"61">>]
    /\ UNCHANGED <<server, content, others, cache, tree, stack, ret, inflight, log, answers, trace, call, result, faults>>

\* the connection fails before the response is complete
ConnectionFails ==
    /\ inflight.method # ""
    /\ resp.tag \in {"none", "headers"}
    /\ faults < MaxFaults
    /\ resp' = [tag |-> "neterr", status |-> 0, data |-> <<>>]
    /\ faults' = faults + 1
    /\ UNCHANGED <<server, content, others, cache, tree, stack, ret, inflight, log, answers, trace, call, result>>

\* the timer set by request fires: controller.abort() makes the pending
\* fetch reject with an AbortError
TimerFires ==
    /\ stack # <<>>
    /\ Top.timeoutId = "armed"
    /\ stack' = <<[Top EXCEPT !.timeoutId = "fired"]>>
    /\ resp' = [tag |-> "abort", status |-> 0, data |-> <<>>]
    /\ UNCHANGED <<server, content, others, cache, tree, ret, inflight, log, answers, trace, call, result, faults>>

\* fetch resolves with the response: request clears the timer and starts to
\* read the body
TimedFetchResolves ==
    /\ stack # <<>>
    /\ Top.pc = "fetch"
    /\ resp.tag \in {"headers", "complete"}
    /\ stack' = <<[Top EXCEPT !.pc = "body",
                              !.timeoutId = IF Top.timeoutId = "armed" THEN "cleared"
                                            ELSE Top.timeoutId]>>
    /\ UNCHANGED <<server, content, others, cache, tree, ret, inflight, resp, log, answers, trace, call, result, faults>>

\* the body has been read: request returns data and status
TimedRequestReturn ==
    /\ stack # <<>>
    /\ Top.pc = "body"
    /\ resp.tag = "complete"
    /\ stack' = <<>>
    /\ result' = OkResponse(resp.status, resp.data)
    /\ answers' = Append(answers, [resp EXCEPT !.tag = "http"])
    /\ inflight' = NoReq
    /\ resp' = NoResp
    /\ UNCHANGED <<server, content, others, cache, tree, ret, log, trace, call, faults>>

\* fetch or the read of the body has rejected: request clears the timer and
\* throws TimeoutError for an AbortError, NetworkError for anything else
TimedRequestCatch ==
    /\ stack # <<>>
    /\ resp.tag \in {"abort", "neterr"}
    /\ stack' = <<>>
    /\ result' = IF resp.tag = "abort" THEN TimeoutError(inflight.url)
                 ELSE NetworkError(inflight.url)
    /\ answers' = Append(answers, resp)
    /\ inflight' = NoReq
    /\ resp' = NoResp
    /\ UNCHANGED <<server, content, others, cache, tree, ret, log, trace, call, faults>>

InitTimeout ==
    /\ prefix \in {<<>>, <<"/", "w">>}
    /\ trailing = FALSE
    /\ listRev = FALSE
    /\ tree = CHOOSE t \in CachedTrees : TRUE
    /\ content = [q \in Files(tree) |-> <<"61">>]
    /\ caching = FALSE
    /\ options = NoOptions
    /\ cache = <<>>
    /\ others = <<>>
    /\ stack = <<>>
    /\ ret = NoRet
    /\ inflight = NoReq
    /\ resp = NoResp
    /\ log = <<>>
    /\ answers = <<>>
    /\ trace = <<>>
    /\ call = [op |-> "", method |-> "", path |-> <<>>, responseType |-> "",
               controller |-> FALSE]
    /\ result = NoRet
    /\ faults = 0

NextTimeout ==
    \/ TimedRequestCall
    \/ ServerSendsHeaders
    \/ ServerSendsBody
    \/ ConnectionFails
    \/ TimerFires
    \/ TimedFetchResolves
    \/ TimedRequestReturn
    \/ TimedRequestCatch

\* the event loop runs a timer that is due and the continuation of a promise
\* that has settled; the user, the server and the network owe no step
SpecTimeout ==
    /\ InitTimeout /\ [][NextTimeout]_vars
    /\ WF_vars(TimerFires)
    /\ WF_vars(TimedFetchResolves)
    /\ WF_vars(TimedRequestReturn)
    /\ WF_vars(TimedRequestCatch)

----------------------------------------------------------------------------
(* Two calls of the adapter with the optional cache that overlap *)

\* The user calls stat or readFile and, without awaiting it, writeFile on
\* the same adapter.  Each call is a task that runs from one await to the
\* next in one step; stack[Reader] and stack[Writer] hold their positions:
\* "idle", "sent" once its request is with the server, "answered" once the
\* server has carried it out, "done" once the call has settled.
Reader == "reader"
Writer == "writer"

ReadOps == {"cached.stat", "cached.readFile"}
OverlapPaths == { <<"/", "a", "/", "b">>, <<"/", "c">> }

IdleTask ==
    [op |-> "", path |-> <<>>, pc |-> "idle", req |-> NoReq, resp |-> NoResp,
     result |-> NoRet, invalidated |-> FALSE]

TaskRequest(method, normalizedPath, depth, body) ==
    [NoReq EXCEPT !.method = method, !.url = joinUrl(baseUrl, normalizedPath),
                  !.depth = depth, !.body = body]

\* stat or readFile is called: it returns what the cache holds for the path,
\* or sends its request
OverlapReadCall ==
    /\ stack[Reader].pc \in {"idle", "done"}
    /\ call.n < MaxCalls
    /\ \E op \in ReadOps, path \in OverlapPaths :
          LET normalizedPath == normalizePath(path)
              key == cacheKey(IF op = "cached.stat" THEN "stat" ELSE "readFile",
                              normalizedPath)
              req == IF op = "cached.stat"
                     THEN TaskRequest("PROPFIND", normalizedPath, "0", <<>>)
                     ELSE TaskRequest("GET", normalizedPath, "", <<>>)
          IN IF cacheHas(cache, key)
             THEN /\ stack' = [stack EXCEPT ![Reader] =
                                  [IdleTask EXCEPT !.op = op, !.path = path,
                                                   !.pc = "done",
                                                   !.result = cache[key]]]
                  /\ UNCHANGED log
             ELSE /\ stack' = [stack EXCEPT ![Reader] =
                                  [IdleTask EXCEPT !.op = op, !.path = path,
                                                   !.pc = "sent", !.req = req]]
                  /\ log' = Append(log, [method |-> req.method, url |-> req.url,
                                         depth |-> req.depth])
    /\ call' = [call EXCEPT !.n = call.n + 1]
    /\ UNCHANGED <<server, content, others, cache, tree, ret, inflight, resp, answers, trace, result, faults>>

\* writeFile(path, data) is called: it sends its PUT
OverlapWriteCall ==
    /\ stack[Writer].pc = "idle"
    /\ \E path \in OverlapPaths, data \in InputData :
          LET req == TaskRequest("PUT", normalizePath(path), "", Body(data))
          IN /\ stack' = [stack EXCEPT ![Writer] =
                             [IdleTask EXCEPT !.op = "cached.writeFile",
                                              !.path = path, !.pc = "sent",
                                              !.req = req]]
             /\ log' = Append(log, [method |-> req.method, url |-> req.url,
                                    depth |-> req.depth])
    /\ UNCHANGED <<server, content, others, cache, tree, ret, inflight, resp, answers, trace, call, result, faults>>

\* the server carries out the request of one of the calls and answers it
ServerHandles ==
    \E task \in {Reader, Writer} :
        /\ stack[task].pc = "sent"
        /\ LET req == stack[task].req
           IN /\ stack' = [stack EXCEPT ![task] =
                              [@ EXCEPT !.pc = "answered",
                                        !.resp = [tag |-> "http",
                                                  status |-> ServerStatus(tree, req, prefix),
                                                  data |-> ServerData(tree, content, req,
                                                                      prefix, trailing, listRev)]]]
              /\ tree' = ServerTree(tree, req, prefix)
              /\ content' = ServerContent(tree, content, req, prefix)
        /\ UNCHANGED <<server, others, cache, ret, inflight, resp, log, answers, trace, call, result, faults>>

\* the response reaches stat or readFile: the call stores what it resolves
\* with in the cache
OverlapReadResp ==
    /\ stack[Reader].pc = "answered"
    /\ LET task == stack[Reader]
           normalizedPath == normalizePath(task.path)
           r == OkResponse(task.resp.status, task.resp.data)
           value == IF task.op = "cached.stat"
                    THEN CachedStatOutcome(r, normalizedPath)
                    ELSE CachedReadFileOutcome(r, normalizedPath)
           key == cacheKey(IF task.op = "cached.stat" THEN "stat" ELSE "readFile",
                           normalizedPath)
       IN /\ stack' = [stack EXCEPT ![Reader] = [@ EXCEPT !.pc = "done", !.result = value]]
          /\ cache' = IF value.tag = "ok" THEN cacheSet(cache, key, value) ELSE cache
    /\ UNCHANGED <<server, content, others, tree, ret, inflight, resp, log, answers, trace, call, result, faults>>

\* the response reaches writeFile: the call clears the entries of the path.
\* The reader notes that the cache was cleared while its request was pending.
OverlapWriteResp ==
    /\ stack[Writer].pc = "answered"
    /\ LET task == stack[Writer]
           normalizedPath == normalizePath(task.path)
           response == CachedOutcome(OkResponse(task.resp.status, task.resp.data),
                                     normalizedPath)
           pending == /\ stack[Reader].pc \in {"sent", "answered"}
                      /\ normalizePath(stack[Reader].path) = normalizedPath
                      /\ response.tag = "ok"
       IN /\ stack' = [stack EXCEPT
                          ![Writer] = [@ EXCEPT !.pc = "done", !.result = response],
                          ![Reader] = [@ EXCEPT !.invalidated = @ \/ pending]]
          /\ cache' = IF response.tag = "ok" THEN ClearFile(cache, normalizedPath)
                      ELSE cache
    /\ UNCHANGED <<server, content, others, tree, ret, inflight, resp, log, answers, trace, call, result, faults>>

InitOverlap ==
    /\ prefix \in {<<>>, <<"/", "w">>}
    /\ trailing = FALSE
    /\ listRev = FALSE
    /\ tree \in CachedTrees
    /\ content = [q \in Files(tree) |-> <<"61">>]
    /\ caching = TRUE
    /\ options = NoOptions
    /\ cache = <<>>
    /\ others = <<>>
    /\ stack = [task \in {Reader, Writer} |-> IdleTask]
    /\ ret = NoRet
    /\ inflight = NoReq
    /\ resp = NoResp
    /\ log = <<>>
    /\ answers = <<>>
    /\ trace = <<>>
    /\ call = [op |-> "", n |-> 0]
    /\ result = NoRet
    /\ faults = 0

NextOverlap ==
    \/ OverlapReadCall
    \/ OverlapWriteCall
    \/ ServerHandles
    \/ OverlapReadResp
    \/ OverlapWriteResp

SpecOverlap == InitOverlap /\ [][NextOverlap]_vars

----------------------------------------------------------------------------
(* Vocabulary of the properties *)

\* the public call has settled
Done == stack = <<>> /\ result.tag # "none"

\* no failure was injected while the current call ran
NoFaultInCall == faults = call.faults

Url(path) == joinUrl(baseUrl, normalizePath(path))

\* the server resource a path of the adapter addresses
Target(path) == Resource(Url(path), prefix)

UrlsOf(method) ==
    LET sent == SelectSeq(log, LAMBDA q : q.method = method)
    IN [k \in 1..Len(sent) |-> sent[k].url]

IsRemove == call.op \in {"rm", "rmdir"}

\* the tree root/sub/file: /a/b/c
RootSubFile == [q \in {<<A>>, <<A, B>>, <<A, B, C>>} |-> q # <<A, B, C>>]

\* the entries of the rm history written by the children of the rm that
\* wrote entry j, a listing
ChildEvents(j) ==
    LET after == {m \in (j + 1)..Len(trace) : trace[m].level = trace[j].level}
        last == IF after = {} THEN Len(trace)
                ELSE CHOOSE m \in after : \A o \in after : m <= o
    IN {m \in (j + 1)..last : trace[m].level = trace[j].level + 1}

RECURSIVE SetToSeq(_)
SetToSeq(S) ==
    IF S = {} THEN <<>>
    ELSE LET m == CHOOSE x \in S : \A y \in S : x <= y
         IN <<m>> \o SetToSeq(S \ {m})

\* the paths of the children of listing j that rm was called on, in call order
ChildCalls(j) ==
    LET ms == SetToSeq({m \in ChildEvents(j) : trace[m].e = "call"})
    IN [k \in 1..Len(ms) |-> trace[ms[k]].path]

\* the paths rm derives from listing j, in listing order
ListedPaths(j) ==
    [k \in 1..Len(trace[j].names) |-> childPath(trace[j].path, trace[j].names[k])]

IsPrefixSeq(s, t) == Len(s) <= Len(t) /\ SubSeq(t, 1, Len(s)) = s

\* the DELETE of a recursively removed directory is in flight
DeletingListed ==
    /\ Len(stack) >= 3
    /\ inflight.method = "DELETE"
    /\ stack[2].op = "_delete"
    /\ stack[3].op = "rm"
    /\ \E j \in 1..Len(trace) :
          trace[j].e = "list" /\ trace[j].level = Len(stack) - 2

\* C1, first part: a directory is deleted after each entry listed under it has
\* been removed
ChildrenBeforeParent ==
    DeletingListed =>
        \A j \in 1..Len(trace) :
            (trace[j].e = "list" /\ trace[j].level = Len(stack) - 2
               /\ \A m \in (j + 1)..Len(trace) : trace[m].level # trace[j].level)
            => /\ ChildCalls(j) = ListedPaths(j)
               /\ Cardinality({m \in ChildEvents(j) : trace[m].e = "ok"})
                    = Len(trace[j].names)

\* C1, second part: the entries of a listing are removed in the order of the
\* listing
SiblingsInListingOrder ==
    \A j \in 1..Len(trace) :
        trace[j].e = "list" => IsPrefixSeq(ChildCalls(j), ListedPaths(j))

\* C1, third part: the DELETE sequence for the tree /a/b/c is file, sub, root
RootSubFileDeletes ==
    (Done /\ IsRemove /\ call.recursive = "true" /\ NoFaultInCall
       /\ call.path = <<"/", "a">> /\ call.tree = RootSubFile)
    => UrlsOf("DELETE") = <<Url(<<"/", "a", "/", "b", "/", "c">>),
                            Url(<<"/", "a", "/", "b">>), Url(<<"/", "a">>)>>

\* C1: recursive rm (and rmdir) deletes a directory only after every entry
\* listed under it has been removed, removes siblings in the order of the
\* server's listing, and for the tree root/sub/file issues the DELETE
\* requests for file, then sub, then root.
C1_RecursiveRemoveOrder ==
    /\ ChildrenBeforeParent
    /\ SiblingsInListingOrder
    /\ RootSubFileDeletes

\* the resources of the subtree the call was made on, as the call found it
CalledSubtree == {q \in DOMAIN call.tree : IsPrefixOf(Target(call.path), q)}

\* C2: against a server that writes collection hrefs with a trailing slash
\* below the base URL's path, without failures, rmdir(path, {recursive:true})
\* on an existing directory resolves, and afterwards neither path nor
\* anything of its former subtree exists on the server.
C2_RecursiveRmdirRemovesTree ==
    (Done /\ call.op = "rmdir" /\ call.recursive = "true" /\ trailing
       /\ NoFaultInCall /\ Target(call.path) # <<>>
       /\ IsDir(call.tree, Target(call.path)))
    => /\ result.tag = "ok"
       /\ \A q \in CalledSubtree : ~Exists(tree, q)

\* entry m of the rm history tells that the removal of a child listed by
\* entry j was rejected
ChildRejected(j, m) ==
    /\ j \in 1..Len(trace) /\ trace[j].e = "list"
    /\ m \in ChildEvents(j) /\ trace[m].e = "err"

SameError(x, y) == x.kind = y.kind /\ x.status = y.status

\* C3: when the removal of a listed child rejects, recursive rm visits no
\* further sibling and sends no further request (none for a sibling, no DELETE
\* for the directory), rejects with the child's error, and the children it
\* removed before stay removed.
C3_ChildFailureAbortsWalk ==
    \A j, m \in 1..Len(trace) :
        ChildRejected(j, m) =>
            /\ \A n \in ChildEvents(j) : n <= m
            /\ Len(log) = trace[m].at
            /\ \A n \in (m + 1)..Len(trace) :
                  /\ trace[n].e \in {"throw", "err"}
                  /\ SameError(trace[n], trace[m])
                  /\ trace[n].about = trace[m].about
            /\ Done => /\ result.tag = "err"
                       /\ SameError(result, trace[m])
                       /\ result.path = trace[m].about
            /\ \A n \in ChildEvents(j) :
                  trace[n].e = "ok" => ~Exists(tree, Target(trace[n].path))

\* a recursive rm has rejected because its second listed child could not be
\* removed, after it removed the first one and before it visited the third
C3_Witness ==
    /\ Done /\ IsRemove
    /\ \E j, m \in 1..Len(trace) :
          /\ ChildRejected(j, m)
          /\ Len(ChildCalls(j)) < Len(trace[j].names)
          /\ \E n \in ChildEvents(j) :
                /\ n < m
                /\ trace[n].e = "ok"
                /\ Exists(call.tree, Target(trace[n].path))

\* the resource the call was made on and, nearest first, the collections above
\* it, the root excluded
RECURSIVE SelfAndAncestors(_)
SelfAndAncestors(r) == IF r = <<>> THEN {} ELSE {r} \cup SelfAndAncestors(Parent(r))

\* mkdir was called on a path whose parent did not exist
ParentMissing ==
    /\ Len(Target(call.path)) >= 2
    /\ ~Exists(call.tree, Parent(Target(call.path)))

\* C4: mkdir(path, {recursive:true}) on a path whose ancestors are missing
\* sends its MKCOL requests for ever deeper collections on the way to path
\* (every missing ancestor before what is below it, path last), sends none for
\* '/' or for an ancestor that existed, and when it resolves every ancestor
\* and path are directories.
C4_RecursiveMkdirOrder ==
    (call.op = "mkdir" /\ call.recursive = "true" /\ ParentMissing) =>
        LET made == UrlsOf("MKCOL")
        IN /\ \A k \in 1..Len(made) :
                 /\ Resource(made[k], prefix) \in SelfAndAncestors(Target(call.path))
                 /\ ~Exists(call.tree, Resource(made[k], prefix))
                 /\ made[k] # Url(<<"/">>)
                 /\ k > 1 => Len(Resource(made[k - 1], prefix))
                              < Len(Resource(made[k], prefix))
           /\ (Done /\ result.tag = "ok") =>
                 \A r \in SelfAndAncestors(Target(call.path)) : IsDir(tree, r)

\* a recursive mkdir has created two missing ancestors and then the leaf
C4_Witness ==
    /\ Done /\ call.op = "mkdir" /\ call.recursive = "true" /\ ParentMissing
    /\ result.tag = "ok"
    /\ Len(UrlsOf("MKCOL")) = 3

\* C5: mkdir on a path that exists sends no MKCOL; it resolves when the path
\* is a directory and rejects with FileExistsError when it is not.
C5_MkdirExisting ==
    (Done /\ call.op = "mkdir" /\ NoFaultInCall
       /\ Exists(call.tree, Target(call.path)))
    => /\ UrlsOf("MKCOL") = <<>>
       /\ IF IsDir(call.tree, Target(call.path)) THEN result.tag = "ok"
          ELSE result.tag = "err" /\ result.kind = "FileExistsError"

\* C6: rm without recursive on a directory sends the DELETE exactly when the
\* directory has no children on the server: with a child (hidden ones
\* included) it rejects and sends no DELETE, without children it sends one
\* DELETE and resolves.
C6_PlainRmOnlyEmptyDirectory ==
    (Done /\ call.op = "rm" /\ call.recursive = "unset" /\ NoFaultInCall
       /\ Target(call.path) # <<>> /\ IsDir(call.tree, Target(call.path)))
    => IF Children(call.tree, Target(call.path)) = {}
       THEN result.tag = "ok" /\ UrlsOf("DELETE") = <<Url(call.path)>>
       ELSE result.tag = "err" /\ UrlsOf("DELETE") = <<>>

\* C7: rm with force resolves without a DELETE when the target does not
\* exist; with or without force every error other than NotFound/404 that
\* reaches rm makes the call reject with that error; without force rm of a
\* missing target rejects with NotFoundError.
C7_ForceSuppressesOnlyNotFound ==
    IsRemove =>
        /\ (Done /\ NoFaultInCall /\ ~Exists(call.tree, Target(call.path)))
           => IF call.force
              THEN result.tag = "ok" /\ UrlsOf("DELETE") = <<>>
              ELSE result.tag = "err" /\ result.kind = "NotFoundError"
                   /\ result.status = 404
        /\ \A n \in 1..Len(trace) :
              (trace[n].e = "throw"
                 /\ (trace[n].status # 404 \/ trace[n].kind # "NotFoundError"))
              => /\ n < Len(trace)
                 /\ trace[n + 1].e = "err"
                 /\ SameError(trace[n + 1], trace[n])
                 /\ Done => result.tag = "err" /\ SameError(result, trace[n])

\* rm with force has resolved on a target that does not exist
C7_Witness ==
    /\ Done /\ IsRemove /\ call.force /\ NoFaultInCall
    /\ ~Exists(call.tree, Target(call.path))
    /\ result.tag = "ok"
    /\ Len(log) = 1

\* the directory the call was made on held one file and one subdirectory
OneFileOneSubdir ==
    LET kids == Children(call.tree, Target(call.path))
    IN /\ IsDir(call.tree, Target(call.path))
       /\ Cardinality(kids) = 2
       /\ \E f, d \in kids : ~call.tree[f] /\ call.tree[d]

\* C8: readDir on a directory that holds one file and one subdirectory returns
\* exactly these two entries and never the entry of the directory itself,
\* with and without a path in the base URL, with and without a trailing slash
\* in the hrefs of collections.
C8_ReadDirWithoutSelf ==
    (Done /\ call.op = "readDir" /\ call.recursive = "unset" /\ NoFaultInCall
       /\ OneFileOneSubdir)
    => /\ result.tag = "ok"
       /\ Len(result.files) = 2
       /\ \A k \in 1..Len(result.files) :
             /\ result.files[k].path # Href(tree, Target(call.path), prefix, trailing)
             /\ \E q \in Children(call.tree, Target(call.path)) :
                   /\ result.files[k].name = q[Len(q)]
                   /\ result.files[k].isDirectory = call.tree[q]

\* C9: stat returns the Stats of the queried resource whenever the depth-0
\* multistatus holds its response, also when no name is left of the href.
C9_StatKeepsNamelessEntry ==
    (Done /\ call.op = "stat" /\ Len(answers) = 1 /\ answers[1].tag = "http"
       /\ answers[1].status < 400 /\ Len(answers[1].data) > 0)
    => /\ result.tag = "ok"
       /\ result.files[1].path = answers[1].data[1].href
       /\ result.files[1].isDirectory = answers[1].data[1].collection

\* the class of the error a response status at or above 400 is turned into
KindOfStatus(status) ==
    CASE status = 401 -> "AuthenticationError"
      [] status = 403 -> "AuthorizationError"
      [] status = 404 -> "NotFoundError"
      [] status = 409 -> "FileExistsError"
      [] OTHER -> "ServerError"

\* C10: stat sends exactly one PROPFIND with Depth 0; it rejects with
\* NotFoundError when the status is 404 or the multistatus yields no entry,
\* with the error of the status for another status from 400 on, and returns
\* the one parsed entry otherwise.
C10_StatOutcome ==
    call.op = "stat" =>
        /\ Len(log) <= 1
        /\ \A k \in 1..Len(log) :
              log[k] = [method |-> "PROPFIND", url |-> Url(call.path), depth |-> "0"]
        /\ Done =>
            /\ Len(log) = 1 /\ Len(answers) = 1
            /\ answers[1].tag = "http" =>
                LET status == answers[1].status
                    entries == parseWebDAVXml(answers[1].data, normalizePath(call.path))
                IN IF status = 404 \/ (status < 400 /\ entries = <<>>)
                   THEN result.tag = "err" /\ result.kind = "NotFoundError"
                        /\ result.status = 404
                   ELSE IF status >= 400
                   THEN /\ result.tag = "err"
                        /\ result.kind = KindOfStatus(status)
                        /\ result.kind = "ServerError" => result.status = status
                   ELSE result.tag = "ok" /\ result.files = <<entries[1]>>

\* stat has rejected with NotFoundError after the server answered 404
C10_Witness ==
    /\ Done /\ call.op = "stat"
    /\ Len(answers) = 1 /\ answers[1].tag = "http" /\ answers[1].status = 404
    /\ result.kind = "NotFoundError"

\* C11: exists returns true when stat succeeds, false exactly when stat
\* rejects with NotFoundError (status 404, or a multistatus without an entry),
\* and rejects with the error of stat for every other failure (401, 403, 409,
\* 5xx, timeout, network error).
C11_ExistsOutcome ==
    (Done /\ call.op = "exists") =>
        /\ Len(answers) = 1
        /\ LET a == answers[1]
               entries == parseWebDAVXml(a.data, normalizePath(call.path))
               notFound == a.tag = "http"
                           /\ (a.status = 404 \/ (a.status < 400 /\ entries = <<>>))
           IN /\ (result.tag = "ok" /\ ~result.flag) <=> notFound
              /\ (result.tag = "ok" /\ result.flag)
                    <=> (a.tag = "http" /\ a.status < 400 /\ entries # <<>>)
              /\ (a.tag = "http" /\ a.status >= 400 /\ a.status # 404)
                    => /\ result.tag = "err"
                       /\ result.kind = KindOfStatus(a.status)
                       /\ result.kind = "ServerError" => result.status = a.status
              /\ a.tag = "abort" => result.tag = "err" /\ result.kind = "TimeoutError"
              /\ a.tag = "neterr" => result.tag = "err" /\ result.kind = "NetworkError"

\* exists has rejected with the error of a 403 answer
C11_Witness ==
    /\ Done /\ call.op = "exists"
    /\ Len(answers) = 1 /\ answers[1].tag = "http" /\ answers[1].status = 403
    /\ result.tag = "err" /\ result.kind = "AuthorizationError"

\* no other client wrote while the current call ran
NoOtherWrite == others = <<>>

\* answer a to a PROPFIND with Depth 0 on path makes stat resolve
StatSucceeded(a, path) ==
    /\ a.tag = "http" /\ a.status < 400
    /\ parseWebDAVXml(a.data, normalizePath(path)) # <<>>

\* answer a to a PROPFIND with Depth 0 on path makes stat reject with
\* NotFoundError
StatNotFound(a, path) ==
    /\ a.tag = "http"
    /\ \/ a.status = 404
       \/ a.status < 400 /\ parseWebDAVXml(a.data, normalizePath(path)) = <<>>

\* C12: writeFile with overwrite false on a path that exists rejects with
\* FileExistsError and sends no PUT; the server keeps its files as they were.
C12_NoOverwriteKeepsExisting ==
    (Done /\ call.op = "writeFile" /\ call.overwrite = "false"
       /\ NoFaultInCall /\ NoOtherWrite
       /\ Exists(call.tree, Target(call.path)))
    => /\ result.tag = "err" /\ result.kind = "FileExistsError"
       /\ UrlsOf("PUT") = <<>>
       /\ tree = call.tree /\ content = call.content

\* C13: when another client creates the path after the probe of writeFile
\* with overwrite false was answered NotFound and before the PUT is sent,
\* writeFile still sends the PUT and the bytes of the other client are replaced
\* by the data of writeFile.
C13_ProbeAndPutNotAtomic ==
    (Done /\ call.op = "writeFile" /\ call.overwrite = "false" /\ NoFaultInCall
       /\ Len(answers) >= 1 /\ StatNotFound(answers[1], call.path)
       /\ \E k \in 1..Len(others) :
             others[k].created /\ others[k].settled = 1 /\ others[k].sent = 1)
    => /\ UrlsOf("PUT") = <<Url(call.path)>>
       /\ result.tag = "ok"
       /\ Target(call.path) \in Files(tree)
       /\ content[Target(call.path)] = Body(call.data)
       /\ content[Target(call.path)] # OtherBody

\* writeFile has replaced the file another client created after the probe
C13_Witness ==
    /\ Done /\ call.op = "writeFile" /\ call.overwrite = "false" /\ NoFaultInCall
    /\ Len(others) = 1 /\ others[1].created /\ others[1].settled = 1
    /\ others[1].sent = 1
    /\ Len(log) = 2 /\ log[2].method = "PUT"
    /\ result.tag = "ok"
    /\ content[Target(call.path)] = Body(call.data)

Transfers == SelectSeq(log, LAMBDA q : q.method \in {"COPY", "MOVE"})

\* C17: copy and move send their COPY or MOVE only after stat of the source
\* has succeeded and, with overwrite false, only after the probe of the
\* destination was answered NotFound; a missing source makes them reject with
\* NotFoundError, overwrite false with an existing destination makes them
\* reject with FileExistsError, and no COPY or MOVE is sent in both cases.
C17_TransferAfterChecks ==
    call.op \in {"copy", "move"} =>
        /\ \A k \in 1..Len(log) :
              log[k].method \in {"COPY", "MOVE"} =>
                 /\ log[k].method = (IF call.op = "copy" THEN "COPY" ELSE "MOVE")
                 /\ StatSucceeded(answers[1], call.path)
                 /\ IF call.overwrite = "false"
                    THEN k = 3 /\ StatNotFound(answers[2], call.dest)
                    ELSE k = 2
        /\ (Done /\ NoFaultInCall /\ NoOtherWrite
              /\ ~Exists(call.tree, Target(call.path)))
           => /\ result.tag = "err" /\ result.kind = "NotFoundError"
              /\ Transfers = <<>>
        /\ (Done /\ NoFaultInCall /\ NoOtherWrite
              /\ Exists(call.tree, Target(call.path))
              /\ call.overwrite = "false" /\ Exists(call.tree, Target(call.dest)))
           => /\ result.tag = "err" /\ result.kind = "FileExistsError"
              /\ Transfers = <<>>

\* C18: without faults and other writers, copy(src, c) of a file followed by
\* move(c, m) succeeds; after the copy the source and the copy hold the bytes
\* the source had, after the move exists(c) is false, m holds these bytes and
\* the source still holds them.
C18_CopyThenMove ==
    (Done /\ call.op = "copyThenMove") =>
        LET src == Target(call.path)
            c == Target(call.dest)
            m == Target(call.moved)
        IN /\ (NoFaultInCall /\ src \in Files(call.tree)
                 /\ src # c /\ c # m)
              => result.tag = "ok"
           /\ result.tag = "ok" =>
                /\ src \in Files(call.tree)
                /\ result.files[2] = call.content[src]
                /\ result.files[3] = call.content[src]
                /\ result.files[5] = FALSE
                /\ result.files[6] = call.content[src]
                /\ result.files[7] = call.content[src]
                /\ c \notin DOMAIN tree
                /\ {src, m} \subseteq Files(tree)
                /\ content[src] = call.content[src]
                /\ content[m] = call.content[src]

\* a file was copied and the copy moved to a third path
C18_Witness ==
    /\ Done /\ call.op = "copyThenMove" /\ result.tag = "ok"
    /\ Target(call.moved) \notin {Target(call.path), Target(call.dest)}
    /\ Target(call.moved) \notin DOMAIN call.tree
    /\ content[Target(call.moved)] = call.content[Target(call.path)]
    /\ Target(call.dest) \notin DOMAIN tree

\* the resource a path of WebDAVFileSystem addresses
FsTarget(path) == Resource(buildUrl(path), prefix)

\* bytes c followed by data, c read as a string when data is a string
Appended(c, data) ==
    IF data.kind = "string" THEN utf8Encode(text(c) \o data.v)
    ELSE c \o data.v

\* bytes that are the UTF-8 form of a string without a byte order mark at the
\* front
PlainText(c) == utf8Encode(text(c)) = c

\* what appendFile leaves on the server when nobody else writes: on a file
\* with bytes c, c followed by the data (c read in the kind of the data: for
\* well-formed text without a byte order mark this is c followed by the bytes
\* of the data); on a path that does not exist what writeFile leaves, a new
\* file with the data
AppendFileEffect ==
    LET r == FsTarget(call.path)
    IN IF r \in Files(call.tree)
       THEN /\ tree = call.tree
            /\ content = [call.content EXCEPT ![r] = Appended(call.content[r], call.data)]
            /\ PlainText(call.content[r])
                  => content[r] = call.content[r] \o Body(call.data)
       ELSE ~Exists(call.tree, r) =>
            /\ UrlsOf("PUT") = <<buildUrl(call.path)>>
            /\ tree = [q \in DOMAIN call.tree \cup {r} |->
                          IF q = r THEN FALSE ELSE call.tree[q]]
            /\ content = [q \in DOMAIN call.content \cup {r} |->
                             IF q = r THEN Body(call.data) ELSE call.content[q]]

\* when the server answers every request of the call itself, appendFile
\* resolves and has appended
AppendFileAnswered ==
    (Done /\ call.op = "appendFile" /\ NoFaultInCall /\ NoOtherWrite) =>
        /\ AppendFileEffect
        /\ ~IsDir(call.tree, FsTarget(call.path)) => result.tag = "ok"

\* C14: with no other writer, an appendFile that resolves leaves c followed by
\* the data in a file that held c, and on a path that does not exist what
\* writeFile leaves.
C14_AppendFile ==
    (Done /\ call.op = "appendFile" /\ NoOtherWrite /\ result.tag = "ok") =>
        AppendFileEffect

\* another client wrote the file after appendFile has read it and before
\* appendFile has sent its PUT
WrittenBetweenReadAndPut ==
    /\ Len(answers) >= 2
    /\ \E k \in 1..Len(others) : others[k].settled = 2 /\ others[k].sent = 2

\* C15: when another client writes the file between the read and the PUT of
\* appendFile, the PUT replaces that write: the file ends as the bytes
\* appendFile has read followed by the data, and the other write is lost.
C15_AppendFileNotAtomic ==
    (Done /\ call.op = "appendFile" /\ NoFaultInCall
       /\ FsTarget(call.path) \in Files(call.tree)
       /\ WrittenBetweenReadAndPut)
    => /\ result.tag = "ok"
       /\ log[2].method = "GET" /\ log[3].method = "PUT"
       /\ content[FsTarget(call.path)] = Appended(answers[2].data, call.data)
       /\ Len(others) = 1 =>
             content[FsTarget(call.path)]
                = Appended(call.content[FsTarget(call.path)], call.data)

\* the write of another client between the read and the PUT has been lost
C15_Witness ==
    /\ Done /\ call.op = "appendFile" /\ NoFaultInCall
    /\ FsTarget(call.path) \in Files(call.tree)
    /\ WrittenBetweenReadAndPut /\ Len(others) = 1
    /\ result.tag = "ok"
    /\ call.content[FsTarget(call.path)] = <<"61">>
    /\ content[FsTarget(call.path)] = <<"61", "FF">>

\* the path without its last segment, "/" for a path right under the root
ParentOf(p) ==
    LET slashes == {k \in 1..Len(p) : p[k] = "/"}
        last == CHOOSE k \in slashes : \A j \in slashes : j <= k
    IN IF last = 1 THEN <<"/">> ELSE SubSeq(p, 1, last - 1)

\* readFile is called right after a writeFile to the same path has resolved
ReadAfterWrite ==
    /\ call.op = "cached.readFile"
    /\ call.written.path # <<>>
    /\ normalizePath(call.written.path) = normalizePath(call.path)

\* C19: a readFile right after a successful writeFile of d to the same path
\* gives d: the bytes of d when read without encoding, the string d when d is
\* a string and is read as utf8; also when the cache is on and held other
\* bytes for the path before the write.  readFile resolves unless a request
\* fails.
C19_ReadAfterWrite ==
    (Done /\ ReadAfterWrite) =>
        LET d == call.written.data
        IN /\ NoFaultInCall => result.tag = "ok"
           /\ result.tag = "ok" =>
                 /\ call.encoding = "" =>
                       result.kind = "Buffer" /\ result.data = Body(d)
                 /\ (call.encoding = "utf8" /\ d.kind = "string") =>
                       result.kind = "string" /\ result.data = d.v

\* the cache held other bytes for the path when writeFile was called, and the
\* readFile after it gives the bytes written
C19_Witness ==
    /\ Done /\ ReadAfterWrite /\ caching /\ call.useCache
    /\ call.written.cached # <<>>
    /\ call.written.cached[1] # Body(call.written.data)
    /\ result.tag = "ok" /\ call.encoding = ""
    /\ result.data = Body(call.written.data)

Mutating ==
    {"cached.writeFile", "cached.deleteFile", "cached.mkdir", "cached.rmdir",
     "cached.copy", "cached.move"}

\* the paths a call changes: the destination of copy, the source and the
\* destination of move, the path of the other operations
Affected ==
    IF call.op = "cached.copy" THEN {normalizePath(call.dest)}
    ELSE IF call.op = "cached.move"
    THEN {normalizePath(call.path), normalizePath(call.dest)}
    ELSE {normalizePath(call.path)}

\* the cache holds neither the stat nor the bytes of an affected path, nor the
\* listing of its parent directory
Invalidated ==
    \A p \in Affected :
        /\ ~cacheHas(cache, cacheKey("stat", p))
        /\ ~cacheHas(cache, cacheKey("readFile", p))
        /\ ~cacheHas(cache, cacheKey("readDir", ParentOf(p)))

\* C20: with the cache on, right after a successful writeFile, deleteFile,
\* mkdir, rmdir, copy or move the cache holds no stat entry and no content
\* entry of an affected path and no listing of its parent directory.
C20_InvalidatedAfterMutation ==
    (Done /\ caching /\ call.op \in Mutating /\ result.tag = "ok") => Invalidated

\* right after a successful writeFile, deleteFile, copy or move the entries
\* are gone: these four clear the stat entry, the content entry and the
\* listing of the parent
InvalidatedAfterFileChange ==
    (Done /\ caching /\ result.tag = "ok"
       /\ call.op \in {"cached.writeFile", "cached.deleteFile", "cached.copy",
                       "cached.move"})
    => Invalidated

\* the call before this one was the same operation on the same path, with
\* the cache on, and resolved
Repeated(op) ==
    /\ caching
    /\ call.op = op /\ call.last.op = op
    /\ normalizePath(call.last.path) = normalizePath(call.path)
    /\ call.last.result.tag = "ok"

\* C21: with the cache on, a stat (a readDir) right after a stat (a readDir)
\* of the same path that resolved sends no request and resolves with the value
\* the first one resolved with; the two calls together send at most one
\* PROPFIND, and exactly one when the first is the first call of the adapter.
C21_SecondCallFromCache ==
    \A op \in {"cached.stat", "cached.readDir"} :
        (Done /\ Repeated(op)) =>
            /\ log = <<>>
            /\ result = call.last.result
            /\ Len(call.last.log) <= 1
            /\ \A k \in 1..Len(call.last.log) : call.last.log[k].method = "PROPFIND"
            /\ call.n = 2 => Len(call.last.log) = 1

\* a stat and a readDir have been answered from the cache after the one call
\* that sent the PROPFIND
C21_Witness ==
    /\ Done /\ call.n = 2 /\ Repeated("cached.stat")
    /\ Len(call.last.log) = 1 /\ log = <<>>
    /\ result.tag = "ok" /\ Len(result.files) = 1

C21_WitnessReadDir ==
    /\ Done /\ call.n = 2 /\ Repeated("cached.readDir")
    /\ Len(call.last.log) = 1 /\ log = <<>>
    /\ result.tag = "ok" /\ Len(result.files) = 1

\* the requests of the current call that have been sent and whose response or
\* failure the adapter has not received yet
Pending == Len(log) - Len(answers)

\* C22: at any time of a call at most one of its requests is pending: a
\* request is sent after the response or the failure of every earlier request
\* of the call has been received, and the request the server holds or has
\* answered is the one pending.
C22_OneRequestInFlight ==
    /\ Pending \in {0, 1}
    /\ (inflight.method # "" \/ resp.tag # "none") => Pending = 1
    /\ ~(inflight.method # "" /\ resp.tag # "none")
    /\ Running("request", "start") => Pending = 0

\* the fifth request of a recursive rm is in flight after the four before it
\* have been answered
C22_Witness ==
    /\ call.op \in {"rm", "rmdir"} /\ call.recursive = "true"
    /\ inflight.method = "DELETE"
    /\ Len(log) = 5 /\ Len(answers) = 4

\* answer k of the current call is a fetch that was aborted by the timeout or
\* that failed on the network
Failed(k) == answers[k].tag \in {"abort", "neterr"}

\* the error request throws for answer k
Thrown(k) ==
    IF answers[k].tag = "abort" THEN TimeoutError(log[k].url)
    ELSE NetworkError(log[k].url)

\* C23: a call of request sends one fetch and then waits for it; once a fetch
\* has been aborted by the timeout or has failed on the network, the call
\* sends no further request, and the public operation rejects with the
\* TimeoutError, respectively the NetworkError, that request has thrown.
C23_NoRetry ==
    /\ Running("request", "wait") => Pending = 1
    /\ \A k \in 1..Len(answers) :
          Failed(k) =>
              /\ k = Len(answers) /\ Len(log) = k
              /\ ~Running("request", "start")
              /\ Done => result = Thrown(k)
              /\ answers[k].tag = "abort" => Thrown(k).kind = "TimeoutError"

\* the third fetch of a recursive rm has been aborted and rm has rejected
\* with the TimeoutError
C23_Witness ==
    /\ Done /\ call.op = "rm" /\ call.recursive = "true"
    /\ Len(answers) = 3 /\ answers[3].tag = "abort"
    /\ result.tag = "err" /\ result.kind = "TimeoutError"

\* the kind of error the taxonomy gives a status of 400 or more
TaxonomyKind(status) ==
    CASE status = 401 -> "AuthenticationError"
      [] status = 403 -> "AuthorizationError"
      [] status = 404 -> "NotFoundError"
      [] status \in {409, 412} -> "FileExistsError"
      [] status = 423 -> "LockError"
      [] OTHER -> "ServerError"

\* the call has rejected right after a response of status 400 or more
RejectedOnStatus ==
    /\ Done /\ result.tag = "err" /\ answers # <<>>
    /\ answers[Len(answers)].tag = "http"
    /\ answers[Len(answers)].status >= 400

\* C24: an operation that rejects on a response of status s >= 400 rejects
\* with AuthenticationError for 401, AuthorizationError for 403, NotFoundError
\* for 404, FileExistsError for 409 and 412, LockError for 423, and for any
\* other s with a ServerError that carries s.
C24_StatusToError ==
    RejectedOnStatus =>
        LET s == answers[Len(answers)].status
        IN /\ result.kind = TaxonomyKind(s)
           /\ result.kind = "ServerError" => result.status = s

\* what holds of the code: 401, 403, 404 and 409 reject with the error of the
\* taxonomy, every other status of 400 or more with a ServerError carrying it
StatusToErrorWithoutLock ==
    RejectedOnStatus =>
        LET s == answers[Len(answers)].status
        IN /\ s \notin {412, 423} => result.kind = TaxonomyKind(s)
           /\ s \in {412, 423} => result.kind = "ServerError"
           /\ result.kind = "ServerError" => result.status = s

\* the classes of errors.ts that an HTTP status or a failed fetch is turned into
TaxonomyKinds ==
    {"AuthenticationError", "AuthorizationError", "NotFoundError",
     "FileExistsError", "LockError", "ServerError", "TimeoutError",
     "NetworkError"}

\* a request of the call was answered with a status in S
Answered(S) ==
    \E k \in 1..Len(answers) : answers[k].tag = "http" /\ answers[k].status \in S

\* C25: an operation one of whose requests is answered with a status outside
\* 200..299, 1xx and 3xx included, rejects with an error of the taxonomy and
\* does not resolve; 404 is left aside, which exists, rm with force and mkdir
\* handle themselves.
C25_NonSuccessRejects ==
    (Done /\ Answered((100..599) \ ((200..299) \cup {404})))
    => result.tag = "err" /\ result.kind \in TaxonomyKinds

\* what holds of the code: a status of 400 or more other than 404 makes the
\* operation reject with the error of that response
ErrorStatusRejects ==
    (Done /\ Answered((400..599) \ {404}))
    => /\ result.tag = "err" /\ result.kind \in TaxonomyKinds
       /\ RejectedOnStatus

\* the classes of errors.ts, each one WebDAVError or a subclass of it
WebDAVErrorKinds == TaxonomyKinds \cup {"WebDAVError", "ArgumentError"}

\* C26: an operation rejects with a WebDAVError or one of its subclasses; a
\* fetch aborted by the timeout gives the TimeoutError and a fetch that failed
\* otherwise the NetworkError that request throws, and an error constructed
\* for a response reaches the caller with its kind and status, through every
\* operation that awaited the one that threw it.
C26_RejectsWithWebDAVError ==
    (Done /\ result.tag = "err") =>
        /\ result.kind \in WebDAVErrorKinds
        /\ \A k \in 1..Len(answers) : Failed(k) => result = Thrown(k)
        /\ RejectedOnStatus =>
              LET e == handleResponseError(answers[Len(answers)].status, <<>>)
              IN result.kind = e.kind /\ result.status = e.status

\* copy has rejected with the NetworkError of its second request, and move
\* with the AuthenticationError of its second response
C26_Witness ==
    /\ Done /\ call.op = "copy" /\ Len(answers) = 2
    /\ answers[2].tag = "neterr"
    /\ result.kind = "NetworkError" /\ result.status = 0

C26_WitnessStatus ==
    /\ Done /\ call.op = "move" /\ Len(answers) = 2
    /\ RejectedOnStatus /\ answers[2].status = 401
    /\ result.kind = "AuthenticationError"

\* the Authorization values the configured credentials stand for: the bearer
\* token when there is one, else the basic credentials of username and
\* password, else none
Derived(o) ==
    IF o.token # "" THEN <<Bearer(o.token)>>
    ELSE IF o.username # "" /\ o.password # ""
    THEN <<createBasicAuthHeader(o.username, o.password)>>
    ELSE <<>>

\* the Authorization values of request k as fetch sends them
Authorization(k) == headerValues(log[k].headers, "authorization")

\* neither the headers of the constructor nor the headers of call k name
\* Authorization
NoAuthorizationGiven(k) ==
    /\ headerValues(options.headers, "authorization") = <<>>
    /\ headerValues(log[k].custom, "authorization") = <<>>

\* C27: with a token configured, alone or next to a username and a password,
\* every request carries Authorization: Bearer <token> and no Basic value;
\* stated of the requests whose other headers do not name Authorization.
C27_BearerFirst ==
    \A k \in 1..Len(log) :
        (options.token # "" /\ NoAuthorizationGiven(k)) =>
            Authorization(k) = <<Bearer(options.token)>>

\* what holds of the code: WebDAVFileSystem sends the bearer token, WebDAVFS
\* sends the basic credentials when it has a username and a password, and no
\* Authorization otherwise, whatever the token
BearerInWebDAVFileSystemOnly ==
    \A k \in 1..Len(log) :
        (options.token # "" /\ NoAuthorizationGiven(k)) =>
            Authorization(k) =
                IF options.class = "WebDAVFileSystem" THEN <<Bearer(options.token)>>
                ELSE IF auth(options)
                THEN <<createBasicAuthHeader(options.username, options.password)>>
                ELSE <<>>

\* C28: with credentials configured, the Authorization of every request is
\* the one the credentials stand for, whatever the headers of the constructor
\* and of the call, also when these name Authorization themselves; stated of
\* the adapters that read their credentials, WebDAVFileSystem and WebDAVFS
\* without a token.
C28_AuthorizationFromCredentials ==
    \A k \in 1..Len(log) :
        (Derived(options) # <<>>
           /\ (options.class = "WebDAVFileSystem" \/ options.token = ""))
        => Authorization(k) = Derived(options)

\* what holds of the code: WebDAVFS without a token replaces an entry named
\* Authorization, in this letter case, by its basic credentials
BasicReplacesAuthorization ==
    \A k \in 1..Len(log) :
        (options.class = "WebDAVFS" /\ options.token = "" /\ auth(options)
           /\ ~has(options.headers, "authorization")
           /\ ~has(log[k].custom, "authorization"))
        => Authorization(k) = Derived(options)

\* the URL of the entry named newName next to path: the segments of path, the
\* last one replaced by newName
SiblingUrl(path, newName) ==
    LET parts == splitFilter(path)
    IN buildUrl(<<"/">> \o join(SubSeq(parts, 1, Len(parts) - 1) \o <<newName>>))

\* rename has handed a request to fetch
Renaming == call.op = "rename" /\ inflight.method # ""

\* C29: rename(path, newName) sends one request, a MOVE of the URL of path
\* whose Destination is the URL of the entry named newName next to path, also
\* for a path right under the root.
C29_RenameToSibling ==
    /\ Renaming =>
          /\ inflight.method = "MOVE"
          /\ inflight.url = buildUrl(call.path)
          /\ inflight.dest = SiblingUrl(call.path, call.newName)
    /\ (Done /\ call.op = "rename") => Len(log) = 1 /\ log[1].method = "MOVE"

\* what holds of the code: one MOVE, to the sibling when the path has a
\* parent directory below the root, and to the root URL followed by two
\* slashes and newName when it has none
RenameBelowRootDoublesSlash ==
    /\ Renaming =>
          /\ inflight.method = "MOVE"
          /\ inflight.url = buildUrl(call.path)
          /\ inflight.dest =
                IF Len(splitFilter(call.path)) > 1
                THEN SiblingUrl(call.path, call.newName)
                ELSE buildUrl(<<"/">>) \o <<"/">> \o call.newName
    /\ (Done /\ call.op = "rename") => Len(log) = 1 /\ log[1].method = "MOVE"

\* C30: exists of WebDAVFileSystem resolves true when its HEAD is answered
\* with a 2xx status, false when it is answered 404, and rejects with a
\* WebDAVError when it is answered with any other status.
C30_HeadExists ==
    (Done /\ call.op = "fs.exists" /\ answers[1].tag = "http") =>
        LET status == answers[1].status
        IN /\ Len(log) = 1 /\ log[1].method = "HEAD"
           /\ ResponseOk(status) => result = OkFlag(TRUE)
           /\ status = 404 => result = OkFlag(FALSE)
           /\ (~ResponseOk(status) /\ status # 404) =>
                 result.tag = "err" /\ result.kind = "WebDAVError"

\* what holds of the code: exists resolves with response.ok, false for every
\* status outside 200..299
HeadExistsIsResponseOk ==
    (Done /\ call.op = "fs.exists" /\ answers[1].tag = "http") =>
        /\ Len(log) = 1 /\ log[1].method = "HEAD"
        /\ result = OkFlag(ResponseOk(answers[1].status))

\* a slash followed by a slash, at the characters i and i + 1 of s
DoubleSlashAt(s, i) == i < Len(s) /\ s[i] = "/" /\ s[i + 1] = "/"

\* joinUrl was evaluated on a base with the path /w (with or without a
\* trailing slash) and a path whose first segment is w
JoinedOnMount ==
    /\ call.op = "joinUrl"
    /\ StripTrailingSlashes(pathname(call.base)) = <<"/", "w">>
    /\ splitFilter(call.path) # <<>>
    /\ splitFilter(call.path)[1] = <<"w">>

\* C31: when the first segment of p is the mount of the base, joinUrl(base,
\* p) carries the mount once: the segments of the result's path are the
\* mount followed by the segments of p after its first; the result has no
\* "//" but the one after the scheme; joinUrl('h://x/w', '/w/a') is
\* 'h://x/w/a' and joinUrl('h://x/w/', '/w/') is 'h://x/w/'.
C31_MountPrefixOnce ==
    JoinedOnMount =>
        /\ SubSeq(result.data, 1, Len(Origin)) = Origin
        /\ splitFilter(pathname(result.data)) = <<<<"w">>>> \o Tail(splitFilter(call.path))
        /\ \A i \in 1..Len(result.data) : DoubleSlashAt(result.data, i) => i = 3
        /\ (call.base = Mount /\ call.path = <<"/", "w", "/", "a">>) =>
              result.data = Mount \o <<"/", "a">>
        /\ (call.base = Mount \o <<"/">> /\ call.path = <<"/", "w", "/">>) =>
              result.data = Mount \o <<"/">>

C31_Witness ==
    /\ JoinedOnMount
    /\ call.base = Mount
    /\ call.path = <<"/", "w", "/", "a">>
    /\ result.data = Mount \o <<"/", "a">>

\* the second example of the claim: base and path both end with a slash
C31_WitnessSlash ==
    /\ JoinedOnMount
    /\ call.base = Mount \o <<"/">>
    /\ call.path = <<"/", "w", "/">>
    /\ result.data = Mount \o <<"/">>

\* C32: normalizePath is idempotent, and its result starts with "/", has
\* no "//" and ends with "/" only when it is "/"; normalizePath('') and
\* normalizePath('///') are '/', normalizePath('a/a/') is '/a/a'.
C32_NormalizePathShape ==
    call.op = "normalizePath" =>
        /\ normalizePath(result.data) = result.data
        /\ startsWith(result.data, "/")
        /\ \A i \in 1..Len(result.data) : ~DoubleSlashAt(result.data, i)
        /\ endsWith(result.data, "/") => result.data = <<"/">>
        /\ call.path \in {<<>>, <<"/", "/", "/">>} => result.data = <<"/">>
        /\ call.path = <<"a", "/", "a", "/">> => result.data = <<"/", "a", "/", "a">>

C32_Witness ==
    /\ call.op = "normalizePath"
    /\ call.path = <<"a", "/", "a", "/">>
    /\ result.data = <<"/", "a", "/", "a">>

\* the paths normalizePath leaves as they are
Normalized(p) == normalizePath(p) = p

\* C39: for one base URL, joinUrl maps two different normalized paths to
\* two different URLs.
C39_JoinUrlInjective ==
    (call.op = "joinUrl" /\ Normalized(call.path)) =>
        \A q \in PathStrings :
            (Normalized(q) /\ q # call.path) => joinUrl(call.base, q) # result.data

\* the statuses of error responses the taxonomy names: 401, 403, 404, 409
\* and the 5xx
ErrorStatuses == {401, 403, 404, 409} \cup (500..599)

\* C34: the error an operation rejects with right after a response of
\* status 401, 403, 404, 409 or 5xx carries the status of that response.
C34_ErrorCarriesResponseStatus ==
    (RejectedOnStatus /\ answers[Len(answers)].status \in ErrorStatuses) =>
        result.status = answers[Len(answers)].status

\* what holds of the code: the error carries the status of the response,
\* but for 409, whose FileExistsError carries 412
ErrorCarriesStatusButConflict ==
    (RejectedOnStatus /\ answers[Len(answers)].status \in ErrorStatuses) =>
        result.status = IF answers[Len(answers)].status = 409 THEN 412
                        ELSE answers[Len(answers)].status

\* C35: mkdir called with recursive unset or false sends at most one MKCOL,
\* and sends it to the URL of path, never to the URL of an ancestor.
C35_MkdirOnlyPath ==
    (call.op = "mkdir" /\ call.recursive \in {"unset", "false"}) =>
        /\ Len(UrlsOf("MKCOL")) <= 1
        /\ \A k \in 1..Len(UrlsOf("MKCOL")) : UrlsOf("MKCOL")[k] = Url(call.path)

\* what holds of the code: mkdir called with recursive false sends at most
\* one MKCOL, to the URL of path
MkdirOnlyPathWhenFalse ==
    (call.op = "mkdir" /\ call.recursive = "false") =>
        /\ Len(UrlsOf("MKCOL")) <= 1
        /\ \A k \in 1..Len(UrlsOf("MKCOL")) : UrlsOf("MKCOL")[k] = Url(call.path)

\* the key of the cached listing of the directory that holds path
ParentListing(path) == cacheKey("readDir", getDirFromPath(normalizePath(path)))

\* with the cache on, a move has resolved
Moved == Done /\ caching /\ call.op = "cached.move" /\ result.tag = "ok"

\* the call before the move was a readDir of the directory that holds the
\* destination, and resolved: its listing was in the cache when move started
ListedBeforeMove ==
    /\ Moved
    /\ call.last.op = "cached.readDir"
    /\ cacheKey("readDir", normalizePath(call.last.path)) = ParentListing(call.dest)

\* C36: with the cache on, a move that resolves leaves the cached readDir
\* listing of the directory that holds dest in the cache.
C36_MoveKeepsDestListing ==
    ListedBeforeMove => cacheHas(cache, ParentListing(call.dest))

\* C36, amended: with the cache on, a move that resolves clears the cached
\* readDir listing of the directory that holds dest, as it clears that of the
\* directory that holds src.
C36_MoveClearsDestListing ==
    Moved => /\ ~cacheHas(cache, ParentListing(call.dest))
             /\ ~cacheHas(cache, ParentListing(call.path))

C36_Witness ==
    /\ ListedBeforeMove
    /\ ~cacheHas(cache, ParentListing(call.dest))
    /\ ParentListing(call.dest) # ParentListing(call.path)

\* the response to a request for path sent now, with no failure on the way
FreshAnswer(method, normalizedPath, depth) ==
    LET req == [NoReq EXCEPT !.method = method,
                             !.url = joinUrl(baseUrl, normalizedPath),
                             !.depth = depth]
    IN OkResponse(ServerStatus(tree, req, prefix),
                  ServerData(tree, content, req, prefix, trailing, listRev))

\* what readDir(path, options) makes of the answer of the server to the
\* PROPFIND it sends for these options
FreshListing(path, recursive, hidden) ==
    CachedReadDirOutcome(
        FreshAnswer("PROPFIND", normalizePath(path),
                    IF recursive = "true" THEN "infinity" ELSE "1"),
        normalizePath(path), hidden)

\* C40: with the cache on, readDir(path, options) resolves with the listing
\* its options ask for (hidden entries with includeHidden, the whole subtree
\* with recursive), also when a listing obtained with other options is cached.
C40_ReadDirHonoursOptions ==
    (Done /\ caching /\ call.op = "cached.readDir") =>
        result = FreshListing(call.path, call.recursive, call.hidden)

\* what holds of the code: without the cache, and for the first readDir of a
\* path with the cache, the listing is the one the options ask for; a later
\* readDir resolves with the listing of the first, whatever its options
ReadDirHonoursFirstOptions ==
    (Done /\ call.op = "cached.readDir") =>
        IF caching /\ call.n > 1
        THEN result = call.last.result /\ log = <<>>
        ELSE result = FreshListing(call.path, call.recursive, call.hidden)

\* what stat(path) and readFile(path, encoding) make of the answer of the
\* server to the request they send when nothing is cached
FreshStat(path) ==
    CachedStatOutcome(FreshAnswer("PROPFIND", normalizePath(path), "0"),
                      normalizePath(path))

FreshReadFile(path, encoding) ==
    LET buffer == CachedReadFileOutcome(FreshAnswer("GET", normalizePath(path), ""),
                                        normalizePath(path))
    IN IF buffer.tag = "err" THEN buffer
       ELSE CachedReadFileReturn(buffer.data, encoding)

\* the result of the stat, readFile or readDir that has settled is the one
\* the adapter without the cache gives for the resources the server holds
ReadsServerState ==
    /\ call.op = "cached.stat" => result = FreshStat(call.path)
    /\ call.op = "cached.readFile" => result = FreshReadFile(call.path, call.encoding)
    /\ call.op = "cached.readDir" => result = FreshListing(call.path, call.recursive, FALSE)

\* C37: with the cache on, no other client, no overlapping calls and no
\* expiry, an operation returns what it returns with the cache off: a stat,
\* readFile or readDir that settles gives the state of the server, also for a
\* directory that was removed or moved and for the paths below it.
C37_CachedAsUncached ==
    (Done /\ caching /\ NoFaultInCall) => ReadsServerState

\* the same calls with the cache off
UncachedReadsServerState ==
    (Done /\ ~caching /\ NoFaultInCall) => ReadsServerState

\* C33: a call of request is bounded by the timeout through its whole
\* duration: whether the server stalls before the headers of its response or
\* while the body is read, the call settles, and a call the timer has ended
\* rejects with a TimeoutError.
C33_TimeoutBoundsCall ==
    /\ (stack # <<>>) ~> Done
    /\ [](Done /\ answers[Len(answers)].tag = "abort" => result.kind = "TimeoutError")

\* what holds of the code: where the runtime has an AbortController, a call
\* of request whose fetch is pending settles or gets the headers of the
\* response, after which the timer is cleared
FetchBoundedByTimeout ==
    (stack # <<>> /\ Top.timeoutId = "armed")
        ~> (Done \/ (stack # <<>> /\ Top.pc = "body" /\ Top.timeoutId = "cleared"))

\* the cache key of the call of the reader
ReaderKey ==
    cacheKey(IF stack[Reader].op = "cached.stat" THEN "stat" ELSE "readFile",
             normalizePath(stack[Reader].path))

\* what the reader stores for its path when it reads the server now
ReaderFresh ==
    IF stack[Reader].op = "cached.stat" THEN FreshStat(stack[Reader].path)
    ELSE CachedReadFileOutcome(
             FreshAnswer("GET", normalizePath(stack[Reader].path), ""),
             normalizePath(stack[Reader].path))

\* the reader has settled, and a writeFile of its path resolved and cleared
\* the cache while the request of the reader was pending
ReadOverlappedWrite ==
    /\ stack[Reader].pc = "done"
    /\ stack[Reader].invalidated
    /\ stack[Writer].pc = "done"

\* C38: when a writeFile of the path resolves and clears the cache while the
\* request of a stat or readFile of that path is pending, the response of the
\* read that arrives later leaves no entry from before the write in the
\* cache: an entry the cache holds for the path is what the server holds.
C38_LateReadNotCached ==
    (ReadOverlappedWrite /\ cacheHas(cache, ReaderKey)) => cache[ReaderKey] = ReaderFresh

\* what holds of the code: the read that settles after the write stores what
\* it resolved with, whatever the cache was cleared of in between
LateReadIsCached ==
    (ReadOverlappedWrite /\ stack[Reader].result.tag = "ok") =>
        /\ cacheHas(cache, ReaderKey)
        /\ cache[ReaderKey] = stack[Reader].result

====
